---- MODULE Spec2Model ----
(***************************************************************************)
(* Character locomotion core of xr-formant: the per-frame player update    *)
(* (CharacterPlayer.tsx, second component of the file), the teleport       *)
(* handler, the stamina sync effect and the companion follower.            *)
(*                                                                         *)
(* Fixed-point units (all integers):                                       *)
(*   positions, displacements : micrometres (1e-6 scene units)             *)
(*   velocities               : millimetres per second                     *)
(*   delta                    : milliseconds                               *)
(*   yaw                      : milliradians                               *)
(*   scale                    : hundredths                                 *)
(*   stamina                  : thousandths                                *)
(*   thumbstick axes          : hundredths (-100..100)                     *)
(*   sin, cos                 : thousandths                                *)
(* so that velocity * delta is a displacement and displacement / delta is  *)
(* a velocity, as in the source.                                           *)
(***************************************************************************)
EXTENDS Integers, Sequences, FiniteSets, TLC

(***************************************************************************)
(* Bounds of the exploration.                                              *)
(***************************************************************************)
MaxFrames == 3

MaxYaw == 150

MaxControllers == 6

(***************************************************************************)
(* Arithmetic helpers.                                                     *)
(***************************************************************************)
Abs(a) == IF a < 0 THEN -a ELSE a

Min(a, b) == IF a < b THEN a ELSE b

Max(a, b) == IF a > b THEN a ELSE b

\* a / b for b > 0, rounded to the nearest integer (the model's counterpart of
\* a floating-point division whose result is kept to the unit of the model).
RDiv(a, b) == IF a >= 0 THEN (2 * a + b) \div (2 * b) ELSE -((2 * (-a) + b) \div (2 * b))

Vec(a, b, c) == [x |-> a, y |-> b, z |-> c]

Zero3 == Vec(0, 0, 0)

\* The number NaN, which a division of 0 by 0 gives and every sum, product
\* and quotient with it gives again.
NaN == -7777777

FAdd(a, b) == IF a = NaN \/ b = NaN THEN NaN ELSE a + b

FMul(a, k) == IF a = NaN THEN NaN ELSE a * k

\* a / k for a displacement a made in the time k; with k = 0 the
\* displacement is 0 and the quotient NaN.
FDiv(a, k) == IF a = NaN \/ k = 0 THEN NaN ELSE RDiv(a, k)

VAdd(a, b) == Vec(FAdd(a.x, b.x), FAdd(a.y, b.y), FAdd(a.z, b.z))

VScale(a, k) == Vec(FMul(a.x, k), FMul(a.y, k), FMul(a.z, k))

VDiv(a, k) == Vec(FDiv(a.x, k), FDiv(a.y, k), FDiv(a.z, k))

\* Math.sin / Math.cos at multiples of 50 mrad, in thousandths.
SinTab ==
  << 0, 50, 100, 149, 199, 247, 296, 343, 389, 435, 479,
     523, 565, 605, 644, 682, 717, 751, 783, 813, 841, 867,
     891, 913, 932, 949, 964, 976, 985, 993, 997, 1000, 1000,
     997, 992, 984, 974, 961, 946, 929, 909, 887, 863, 837,
     808, 778, 746, 711, 675, 638, 598, 558, 516, 472, 427,
     382, 335, 287, 239, 190, 141, 91, 42, -8, -58 >>

CosTab ==
  << 1000, 999, 995, 989, 980, 969, 955, 939, 921, 900, 878,
     853, 825, 796, 765, 732, 697, 660, 622, 582, 540, 498,
     454, 408, 362, 315, 267, 219, 170, 121, 71, 21, -29,
     -79, -129, -178, -227, -276, -323, -370, -416, -461, -505, -547,
     -589, -628, -666, -703, -737, -770, -801, -830, -857, -882, -904,
     -924, -942, -958, -971, -982, -990, -996, -999, -1000, -998 >>

\* Linear interpolation in a table of 50 mrad steps, for 0 <= a <= 3150.
Interp(tab, a) ==
  LET k == a \div 50
      r == a % 50
  IN  tab[k + 1] + RDiv((tab[k + 2] - tab[k + 1]) * r, 50)

\* Math.sin(yaw), yaw in mrad with |yaw| <= 3150, result in thousandths.
Sin(yaw) == IF yaw < 0 THEN -Interp(SinTab, -yaw) ELSE Interp(SinTab, yaw)

\* Math.cos(yaw), yaw in mrad with |yaw| <= 3150, result in thousandths.
Cos(yaw) == Interp(CosTab, Abs(yaw))

(***************************************************************************)
(* Program constants.                                                      *)
(***************************************************************************)
jumpVelocity == 3000

gravity == -9810

rotationSpeed == 50

scaleSpeed == 1

minScale == 30

maxScale == 300

staminaDrainRate == 15

staminaStop == 5000

baseSpeed == 25000

teleportOffsetY == 1500000

targetDistance == 2000

eyeHeight == 1400000

deadzone == 10

NoUpdate == -999999

\* head: reading the camera throws.
NoHead == 9999

\* head: the camera's forward vector has no horizontal part (x = z = +0).
HeadZero == 9998

\* head: the same with x = z = -0, as the negation of a zero matrix entry gives.
HeadNegZero == 9997

\* useRapier() gave no world; characterControllerRef.current is null.
NoWorld == 0

NoController == 0

(***************************************************************************)
(* State.                                                                  *)
(***************************************************************************)
VARIABLES
  playerRef,           \* playerRef.current is set (the rigid body is mounted)
  translation,         \* player body translation()
  linvel,              \* player body linvel()
  characterControllerRef, \* characterControllerRef.current is set
  playerGroupRef,      \* playerGroupRef.current is set
  groupRotationY,      \* playerGroupRef.current.rotation.y
  rotation,            \* React state `rotation` as last rendered
  scale,               \* React state `scale` as last rendered
  stamina,             \* React state `stamina` as last rendered
  pending,             \* setState calls queued since the last render
  renderPending,       \* a render has been scheduled
  staminaRef,          \* staminaRef.current
  velocityRef,         \* velocityRef.current
  isJumpingRef,        \* isJumpingRef.current
  squeezeModeRef,      \* squeezeModeRef.current
  companionTargetRef,  \* companionTargetRef.current
  controls,            \* leva "Properties" controls as seen by the last render
  levaControls,        \* leva "Properties" controls as set in the panel
  session,             \* an XR session exists (and is presenting)
  xrSpeed,             \* options.speed captured by useXRControllerLocomotion at the last render
  companion,           \* companion body and controls
  frameDelta,          \* delta of the animation frame in progress
  pc,                  \* position in the animation frame
  frames,              \* number of animation frames started
  world,               \* the world useRapier() returned to the last render (NoWorld if none)
  registered,          \* character controllers registered with a world
  mounted,             \* which of the two components are mounted
  cleanups,            \* the cleanup each component's controller effect returned
  created,             \* number of character controllers created so far
  teleportedTo,        \* the teleport made since the last player frame, if any
  teleportHandlerRef,  \* teleportHandlerRef.current of the ModelProvider is set
  models,              \* the records of object store "models" of IndexedDB GLBModelCache
  response,            \* the service worker's answer to the last /cached-model/ fetch
  last                 \* the operation that produced this state, with its inputs

vars ==
  << playerRef, translation, linvel, characterControllerRef, playerGroupRef,
     groupRotationY, rotation, scale, stamina, pending, renderPending,
     staminaRef, velocityRef, isJumpingRef, squeezeModeRef,
     companionTargetRef, controls, levaControls, session, xrSpeed, companion,
     frameDelta, pc, frames, world, registered, mounted, cleanups, created,
     teleportedTo, teleportHandlerRef, models, response, last >>

cacheVars == << models, response >>

sceneVars ==
  << playerRef, translation, linvel, characterControllerRef, playerGroupRef,
     groupRotationY, rotation, scale, stamina, pending, renderPending,
     staminaRef, velocityRef, isJumpingRef, squeezeModeRef,
     companionTargetRef, controls, levaControls, session, xrSpeed, companion,
     frameDelta, pc, frames, world, registered, mounted, cleanups, created,
     teleportedTo, teleportHandlerRef, last >>

(***************************************************************************)
(* The model cache (modelCache.ts) and the service worker that serves it.  *)
(* A string is the sequence of its characters, an ArrayBuffer the sequence *)
(* of its bytes.                                                           *)
(***************************************************************************)
\* The value of a property the object does not have.
Undefined == -1

\* "/cached-model/"
CachedModelPrefix == << "/", "c", "a", "c", "h", "e", "d", "-", "m", "o", "d", "e", "l", "/" >>

\* encodeURIComponent of one character: the unreserved characters stay, the
\* others become "%" and the two hexadecimal digits of their code.
EscapeChar(c) ==
  CASE c = " " -> << "%", "2", "0" >>
    [] c = "%" -> << "%", "2", "5" >>
    [] c = "/" -> << "%", "2", "F" >>
    [] OTHER -> << c >>

RECURSIVE encodeURIComponent(_)
encodeURIComponent(str) ==
  IF str = << >> THEN << >> ELSE EscapeChar(Head(str)) \o encodeURIComponent(Tail(str))

\* `/cached-model/${encodeURIComponent(filename)}`
getCachedModelUrl(filename) == CachedModelPrefix \o encodeURIComponent(filename)

\* event.request.url of a fetch of the path from a page of the application.
RequestUrl(path) == [origin |-> "https://app", pathname |-> path]

\* new URL(event.request.url).pathname: the path with its escapes as sent.
Pathname(url) == url.pathname

\* str.startsWith(prefix)
StartsWith(str, prefix) ==
  Len(str) >= Len(prefix) /\ SubSeq(str, 1, Len(prefix)) = prefix

\* str.replace(prefix, '') for a str that starts with prefix.
RemovePrefix(str, prefix) == SubSeq(str, Len(prefix) + 1, Len(str))

\* The CachedModel record that cacheModel puts.
CachedModel(filename, data, timestamp) ==
  [filename |-> filename, data |-> data, timestamp |-> timestamp,
   mimeType |-> "application/octet-stream"]

\* new Response(...) with its status and body.
ResponseOf(filename, key, status, kind, bytes) ==
  [filename |-> filename, key |-> key, store |-> models, status |-> status,
   kind |-> kind, bytes |-> bytes]

NoResponse == [filename |-> << >>, key |-> << >>, store |-> {}, status |-> 0,
               kind |-> "none", bytes |-> << >>]

\* What the promise around store.get(filename) resolves with: request.result,
\* the stored record.
GetResult(record) == [kind |-> "CachedModel", record |-> record]

\* value.byteLength
ByteLength(value) ==
  IF value.kind = "ArrayBuffer" THEN Len(value.bytes) ELSE Undefined

\* handleCachedModelRequest(filename): the record under the key, then the
\* Response built from it; a missing record, and the TypeError of
\* undefined.toString() for the Content-Length, end in the catch block.
handleCachedModelRequest(requested, key) ==
  LET found == {m \in models : m.filename = key}
      value == GetResult(CHOOSE m \in found : TRUE)
  IN  IF found = {} THEN ResponseOf(requested, key, 404, "text", << >>)
      ELSE IF ByteLength(value) = Undefined
             THEN ResponseOf(requested, key, 404, "text", << >>)
             ELSE ResponseOf(requested, key, 200, "bytes", value.bytes)

lifecycleVars ==
  << world, registered, mounted, cleanups, created, teleportHandlerRef, cacheVars >>

(***************************************************************************)
(* Physics world queries (external collaborator).  The outcome of a        *)
(* shape-cast depends on the scene, so it is an input of the frame: `cast` *)
(* names what the character controller met.                                *)
(***************************************************************************)
CastKinds == {"free", "floor", "wall", "wallfloor"}

\* characterController.computeColliderMovement(collider, desired), then
\* computedMovement() and computedGrounded().
ShapeCast(kind, desired) ==
  LET blockedDown == IF desired.y < 0 THEN 0 ELSE desired.y
  IN  CASE kind = "free"      -> [mv |-> desired, grounded |-> FALSE]
        [] kind = "floor"     -> [mv |-> [desired EXCEPT !.y = blockedDown], grounded |-> TRUE]
        [] kind = "wall"      -> [mv |-> Vec(0, desired.y, 0), grounded |-> FALSE]
        [] kind = "wallfloor" -> [mv |-> Vec(0, blockedDown, 0), grounded |-> TRUE]

(***************************************************************************)
(* The player's frame, section by section (CharacterPlayer useFrame).      *)
(***************************************************************************)
\* XRInput passing the raw axes on.
XRInputRaw(inp, sess) ==
  IF ~sess
    THEN [x |-> 0, z |-> 0, rot |-> 0, grow |-> FALSE, shrink |-> FALSE]
    ELSE [x      |-> IF inp.leftGamepad THEN inp.leftX ELSE 0,
          z      |-> IF inp.leftGamepad THEN inp.leftY ELSE 0,
          rot    |-> IF inp.rightGamepad THEN inp.rightX ELSE 0,
          shrink |-> inp.leftGamepad /\ inp.xButton,
          grow   |-> inp.leftGamepad /\ inp.yButton]

\* XR controller input with the 0.1 deadzone.
XRInput(inp, sess) ==
  IF ~sess
    THEN [x |-> 0, z |-> 0, rot |-> 0, grow |-> FALSE, shrink |-> FALSE]
    ELSE [x      |-> IF inp.leftGamepad /\ Abs(inp.leftX) > deadzone THEN inp.leftX ELSE 0,
          z      |-> IF inp.leftGamepad /\ Abs(inp.leftY) > deadzone THEN inp.leftY ELSE 0,
          rot    |-> IF inp.rightGamepad /\ Abs(inp.rightX) > deadzone THEN inp.rightX ELSE 0,
          shrink |-> inp.leftGamepad /\ inp.xButton,
          grow   |-> inp.leftGamepad /\ inp.yButton]

\* rotationDelta of the frame, in mrad.
RotationDelta(inp, xr) ==
  (IF inp.rotateLeft THEN rotationSpeed ELSE 0)
  - (IF inp.rotateRight THEN rotationSpeed ELSE 0)
  - (IF Abs(xr.rot) > deadzone THEN RDiv(xr.rot * rotationSpeed * 2, 100) ELSE 0)

\* Math.atan2(headDirection.x, headDirection.z) of the forward vector the
\* camera gave: 0 for x = z = +0, -pi for x = z = -0.
HeadYaw(head) ==
  IF head = HeadZero THEN 0 ELSE IF head = HeadNegZero THEN -3142 ELSE head

\* MovementRotation that never looks at the head.
MovementRotationLogical(currentRotation, sess, head) == currentRotation

\* movementRotation: while presenting, the yaw of the camera's forward
\* vector, and the logical yaw otherwise (also when reading the head pose
\* throws).
MovementRotation(currentRotation, sess, head) ==
  IF sess /\ head # NoHead THEN HeadYaw(head) ELSE currentRotation

\* CurrentSpeed with the band limits taken as 30 and 60 instead of 0.3 and
\* 0.6 of maxStamina.
CurrentSpeedFixedBands(ctl, sref) ==
  IF ~ctl.staminaEnabled THEN ctl.maxWalkingSpeed
  ELSE IF sref < staminaStop THEN 0
  ELSE IF sref < 30000 THEN RDiv(ctl.maxWalkingSpeed * 3, 10)
  ELSE IF sref < 60000 THEN RDiv(ctl.maxWalkingSpeed * 7, 10)
  ELSE ctl.maxWalkingSpeed

\* currentSpeed from the stamina bands.
CurrentSpeed(ctl, sref) ==
  IF ~ctl.staminaEnabled THEN ctl.maxWalkingSpeed
  ELSE IF sref < staminaStop THEN 0
  ELSE IF 10 * sref < 3 * ctl.maxStamina THEN RDiv(ctl.maxWalkingSpeed * 3, 10)
  ELSE IF 10 * sref < 6 * ctl.maxStamina THEN RDiv(ctl.maxWalkingSpeed * 7, 10)
  ELSE ctl.maxWalkingSpeed

\* getXRSpeed without the stop below 5.
getXRSpeedNoStop(ctl, sref) ==
  IF ~ctl.staminaEnabled THEN baseSpeed
  ELSE IF 10 * sref < 3 * ctl.maxStamina THEN RDiv(baseSpeed * 3, 10)
  ELSE IF 10 * sref < 6 * ctl.maxStamina THEN RDiv(baseSpeed * 7, 10)
  ELSE baseSpeed

\* getXRSpeed(), evaluated while rendering.
getXRSpeed(ctl, sref) ==
  IF ~ctl.staminaEnabled THEN baseSpeed
  ELSE IF sref < staminaStop THEN 0
  ELSE IF 10 * sref < 3 * ctl.maxStamina THEN RDiv(baseSpeed * 3, 10)
  ELSE IF 10 * sref < 6 * ctl.maxStamina THEN RDiv(baseSpeed * 7, 10)
  ELSE baseSpeed

\* KeyboardMovement with the forward direction along +sin, +cos.
KeyboardMovementFlipped(inp, rot, speed) ==
  LET s == RDiv(Sin(rot) * speed, 1000)
      c == RDiv(Cos(rot) * speed, 1000)
      f == IF inp.forward THEN 1 ELSE 0
      b == IF inp.back THEN 1 ELSE 0
      l == IF inp.left THEN 1 ELSE 0
      r == IF inp.right THEN 1 ELSE 0
  IN  [x |-> (f - b) * s + (r - l) * c,
       z |-> (f - b) * c + (l - r) * s,
       isMoving |-> inp.forward \/ inp.back \/ inp.left \/ inp.right]

\* Keyboard contribution to movementX / movementZ and to isMoving.
KeyboardMovement(inp, rot, speed) ==
  LET s == RDiv(Sin(rot) * speed, 1000)
      c == RDiv(Cos(rot) * speed, 1000)
      f == IF inp.forward THEN 1 ELSE 0
      b == IF inp.back THEN 1 ELSE 0
      l == IF inp.left THEN 1 ELSE 0
      r == IF inp.right THEN 1 ELSE 0
  IN  [x |-> (b - f) * s + (r - l) * c,
       z |-> (b - f) * c + (l - r) * s,
       isMoving |-> inp.forward \/ inp.back \/ inp.left \/ inp.right]

\* Thumbstick contribution to movementX / movementZ and to isMoving.
XRMovement(xr, movementRotation, speed) ==
  IF Abs(xr.x) > deadzone \/ Abs(xr.z) > deadzone
    THEN LET vrMoveSpeed == RDiv(speed * 15, 10)
             s == RDiv(Sin(movementRotation) * vrMoveSpeed, 1000)
             c == RDiv(Cos(movementRotation) * vrMoveSpeed, 1000)
             zx == IF xr.z > 0 THEN -RDiv(s * xr.z, 100)
                   ELSE IF xr.z < 0 THEN RDiv(s * Abs(xr.z), 100) ELSE 0
             zz == IF xr.z > 0 THEN -RDiv(c * xr.z, 100)
                   ELSE IF xr.z < 0 THEN RDiv(c * Abs(xr.z), 100) ELSE 0
             xx == IF xr.x > 0 THEN -RDiv(c * xr.x, 100)
                   ELSE IF xr.x < 0 THEN RDiv(c * Abs(xr.x), 100) ELSE 0
             xz == IF xr.x > 0 THEN RDiv(s * xr.x, 100)
                   ELSE IF xr.x < 0 THEN -RDiv(s * Abs(xr.x), 100) ELSE 0
         IN  [x |-> zx + xx, z |-> zz + xz, isMoving |-> TRUE]
    ELSE [x |-> 0, z |-> 0, isMoving |-> FALSE]

\* JumpStep without the !isJumpingRef.current condition.
JumpStepInAir(vy, jumping, inp) ==
  IF inp.jump /\ inp.colliderOk /\ inp.probeGrounded
    THEN [y |-> jumpVelocity, jumping |-> TRUE, started |-> TRUE]
    ELSE [y |-> vy, jumping |-> jumping, started |-> FALSE]

\* JumpStep without the zero-displacement ground probe.
JumpStepNoProbe(vy, jumping, inp) ==
  IF inp.jump /\ ~jumping /\ inp.colliderOk
    THEN [y |-> jumpVelocity, jumping |-> TRUE, started |-> TRUE]
    ELSE [y |-> vy, jumping |-> jumping, started |-> FALSE]

\* JUMPING: the jump starts on a jump intent when not jumping and the
\* zero-displacement probe reports grounded.
JumpStep(vy, jumping, inp) ==
  IF inp.jump /\ ~jumping /\ inp.colliderOk /\ inp.probeGrounded
    THEN [y |-> jumpVelocity, jumping |-> TRUE, started |-> TRUE]
    ELSE [y |-> vy, jumping |-> jumping, started |-> FALSE]

\* ScaleStep without the range conditions and the Math.min / Math.max.
ScaleStepUnclamped(sc, grow, shrink) ==
  LET up == IF grow THEN sc + scaleSpeed ELSE NoUpdate
  IN  IF shrink THEN sc - scaleSpeed ELSE up

\* ScaleStep with the two setScale calls in the other order.
ScaleStepGrowLast(sc, grow, shrink) ==
  LET down == IF shrink /\ sc > minScale THEN Max(sc - scaleSpeed, minScale) ELSE NoUpdate
  IN  IF grow /\ sc < maxScale THEN Min(sc + scaleSpeed, maxScale) ELSE down

\* SCALING: the value handed to setScale in this frame, or NoUpdate.
ScaleStep(sc, grow, shrink) ==
  LET up == IF grow /\ sc < maxScale THEN Min(sc + scaleSpeed, maxScale) ELSE NoUpdate
  IN  IF shrink /\ sc > minScale THEN Max(sc - scaleSpeed, minScale) ELSE up

\* StaminaStep without Math.max(0, ...) and Math.min(maxStamina, ...).
StaminaStepUnclamped(ctl, sref, isMoving, delta) ==
  IF ~ctl.staminaEnabled THEN sref
  ELSE IF isMoving THEN sref - staminaDrainRate * delta
  ELSE sref + ctl.staminaRegenRate * delta

\* StaminaStep that regenerates only from the stop level of 5 upwards.
StaminaStepNoRegenBelowStop(ctl, sref, isMoving, delta) ==
  IF ~ctl.staminaEnabled THEN sref
  ELSE IF isMoving THEN Max(0, sref - staminaDrainRate * delta)
  ELSE IF sref < staminaStop THEN sref
  ELSE Min(ctl.maxStamina, sref + ctl.staminaRegenRate * delta)

\* STAMINA SYSTEM: staminaRef.current after the frame.
StaminaStep(ctl, sref, isMoving, delta) ==
  IF ~ctl.staminaEnabled THEN sref
  ELSE IF isMoving THEN Max(0, sref - staminaDrainRate * delta)
  ELSE Min(ctl.maxStamina, sref + ctl.staminaRegenRate * delta)

\* GravityStep that ignores delta (a fixed 1/60 s step).
GravityStepFixed(delta) == RDiv(gravity * 16, 1000)

\* gravity * delta, in mm/s.
GravityStep(delta) == RDiv(gravity * delta, 1000)

\* LandingClamp that clears the jumping flag but keeps the velocity.
LandingClampKeepsVelocity(vy, jumping, grounded) ==
  IF grounded /\ vy <= 0
    THEN [y |-> vy, jumping |-> FALSE]
    ELSE [y |-> vy, jumping |-> jumping]

\* The landing clamp after the collision query.
LandingClamp(vy, jumping, grounded) ==
  IF grounded /\ vy <= 0
    THEN [y |-> 0, jumping |-> FALSE]
    ELSE [y |-> vy, jumping |-> jumping]

\* FrameVertical with the landing clamp applied before gravity is added.
FrameVerticalClampFirst(vy, jumping, inp, delta) ==
  LET j == JumpStep(vy, jumping, inp)
      cast == ShapeCast(inp.cast, Vec(0, j.y * delta, 0))
      cl == LandingClamp(j.y, j.jumping, cast.grounded)
  IN  IF inp.colliderOk
        THEN [y |-> cl.y + GravityStep(delta), jumping |-> cl.jumping]
        ELSE [y |-> j.y + GravityStep(delta), jumping |-> j.jumping]

\* verticalVelocity and the jumping flag at the end of a frame that passed
\* the guard: jump, gravity, collision query, landing clamp.
FrameVertical(vy, jumping, inp, delta) ==
  LET j == JumpStep(vy, jumping, inp)
      vy1 == j.y + GravityStep(delta)
      cast == ShapeCast(inp.cast, Vec(0, vy1 * delta, 0))
  IN  IF inp.colliderOk
        THEN LandingClamp(vy1, j.jumping, cast.grounded)
        ELSE [y |-> vy1, jumping |-> j.jumping]

\* movementX / movementZ of the frame (keyboard plus thumbstick), in mm/s.
FrameMovement(inp, currentRotation, sess, speed) ==
  LET xr == XRInput(inp, sess)
      kb == KeyboardMovement(inp, currentRotation, speed)
      vr == XRMovement(xr, MovementRotation(currentRotation, sess, inp.head), speed)
  IN  [x |-> kb.x + vr.x, z |-> kb.z + vr.z, isMoving |-> kb.isMoving \/ vr.isMoving]

\* Velocity handed to the useXRControllerLocomotion callback: the left
\* thumbstick scaled by options.speed, turned into the camera's frame.
HookVelocity(inp, speed) ==
  LET ax == IF inp.leftGamepad THEN RDiv(inp.leftX * speed, 100) ELSE 0
      az == IF inp.leftGamepad THEN RDiv(inp.leftY * speed, 100) ELSE 0
  IN  IF inp.head \in {NoHead, HeadZero, HeadNegZero} THEN Vec(ax, 0, az)
      ELSE Vec(-RDiv(ax * Cos(inp.head) + az * Sin(inp.head), 1000), 0,
               -RDiv(az * Cos(inp.head) - ax * Sin(inp.head), 1000))

\* CompanionTarget on the side opposite to the facing direction.
CompanionTargetBehind(pos, currentRotation) ==
  Vec(FAdd(pos.x, Sin(currentRotation) * targetDistance),
      FAdd(pos.y, -eyeHeight),
      FAdd(pos.z, Cos(currentRotation) * targetDistance))

\* companionTargetRef.current as written by the frame.
CompanionTarget(pos, currentRotation) ==
  Vec(FAdd(pos.x, -Sin(currentRotation) * targetDistance),
      FAdd(pos.y, -eyeHeight),
      FAdd(pos.z, -Cos(currentRotation) * targetDistance))

(***************************************************************************)
(* Inputs of a frame: keyboard state, XR controller state, head pose and   *)
(* what the physics world answers.                                         *)
(***************************************************************************)
NoInput ==
  [forward |-> FALSE, back |-> FALSE, left |-> FALSE, right |-> FALSE,
   grow |-> FALSE, shrink |-> FALSE, rotateLeft |-> FALSE, rotateRight |-> FALSE,
   jump |-> FALSE, squeeze |-> FALSE,
   leftGamepad |-> FALSE, leftX |-> 0, leftY |-> 0, xButton |-> FALSE, yButton |-> FALSE,
   rightGamepad |-> FALSE, rightX |-> 0, xrTurn |-> 0, head |-> NoHead,
   colliderOk |-> TRUE, probeGrounded |-> TRUE, cast |-> "floor"]

NoFrame ==
  [ran |-> FALSE, speed |-> 0, movement |-> Vec(0, 0, 0), rotationDelta |-> 0,
   jumpStarted |-> FALSE, castRan |-> FALSE, grounded |-> FALSE,
   desired |-> Zero3, computed |-> Zero3, hook |-> FALSE, hookVelocity |-> Zero3,
   squeezing |-> FALSE, preVy |-> 0, preJumping |-> FALSE, preStamina |-> 0,
   preTranslation |-> Zero3, preLinvel |-> Zero3, distance |-> 0, threw |-> FALSE,
   controller |-> NoController]

LastOf(op, inp, delta, target, info) ==
  [op |-> op, inp |-> inp, delta |-> delta, target |-> target, info |-> info]

NoPending == [scale |-> NoUpdate, rotation |-> NoUpdate, stamina |-> NoUpdate]

NoTeleport == [since |-> FALSE, at |-> Zero3, preLinvel |-> Zero3]

(***************************************************************************)
(* Actions of the player component.                                        *)
(***************************************************************************)
\* FrameGuard that tests the group ref only.
FrameGuardGroupOnly(body, controller, group) == group

\* The guard that opens the useFrame callback: the frame goes on only with
\* the body, the character controller and the group.
FrameGuard(body, controller, group) ==
  body /\ controller # NoController /\ group

\* ColliderLookup that takes the handle of the body's collider as valid.
ColliderLookupAssumed(inp0, worldOk) == [inp0 EXCEPT !.colliderOk = TRUE]

\* world.getCollider(playerRef.current.handle) as the frame sees it: no
\* collider without a world, else what the world answers.
ColliderLookup(inp0, worldOk) ==
  IF worldOk THEN inp0 ELSE [inp0 EXCEPT !.colliderOk = FALSE]

\* One animation frame of the player: the useXRControllerLocomotion
\* callback, then the component's own useFrame callback.  Without a world
\* the callback ends at its first world.getCollider(...) with a TypeError.
PlayerFrame(inp0) ==
  LET delta == frameDelta
      worldOk == world # NoWorld
      inp == ColliderLookup(inp0, worldOk)
      hookOn == mounted.player /\ playerRef /\ session
      hv == HookVelocity(inp, xrSpeed)
      pos0 == IF hookOn THEN VAdd(translation, hv) ELSE translation
      grp0 == IF hookOn /\ playerGroupRef THEN groupRotationY + inp.xrTurn ELSE groupRotationY
      pendRot0 == IF hookOn /\ playerGroupRef /\ grp0 # rotation THEN grp0 ELSE pending.rotation
      ran == mounted.player /\ FrameGuard(playerRef, characterControllerRef, playerGroupRef)
      throwAtJump == ran /\ ~worldOk /\ inp.jump /\ ~isJumpingRef
      throwAtPhysics == ran /\ ~worldOk /\ ~throwAtJump
      xr == XRInput(inp, session)
      rotationDelta == RotationDelta(inp, xr)
      currentRotation == rotation + rotationDelta
      pendRot1 == IF rotationDelta # 0 THEN currentRotation ELSE pendRot0
      speed == CurrentSpeed(controls, staminaRef)
      mv == FrameMovement(inp, currentRotation, session, speed)
      j == JumpStep(velocityRef.y, isJumpingRef, inp)
      sc == ScaleStep(scale, inp.grow \/ xr.grow, inp.shrink \/ xr.shrink)
      st == StaminaStep(controls, staminaRef, mv.isMoving, delta)
      vy1 == j.y + GravityStep(delta)
      desired == Vec(mv.x * delta, vy1 * delta, mv.z * delta)
      cast == ShapeCast(inp.cast, desired)
      fv == FrameVertical(velocityRef.y, isJumpingRef, inp, delta)
      squeezing == inp.squeeze /\ ~session /\ inp.forward
      pend1 == [pending EXCEPT
                  !.rotation = pendRot1,
                  !.scale = IF sc # NoUpdate THEN sc ELSE @,
                  !.stamina = IF controls.staminaEnabled /\ st # stamina THEN st ELSE @]
      pend0 == [pending EXCEPT !.rotation = pendRot0]
      pendJ == [pending EXCEPT !.rotation = pendRot1]
      pre == [NoFrame EXCEPT !.hook = hookOn,
                             !.hookVelocity = IF hookOn THEN hv ELSE Zero3,
                             !.preVy = velocityRef.y,
                             !.preJumping = isJumpingRef,
                             !.preStamina = staminaRef,
                             !.preLinvel = linvel,
                             !.preTranslation = translation]
      info == [pre EXCEPT !.ran = TRUE, !.speed = speed, !.movement = Vec(mv.x, 0, mv.z),
                          !.rotationDelta = rotationDelta, !.jumpStarted = j.started,
                          !.castRan = inp.colliderOk,
                          !.grounded = inp.colliderOk /\ cast.grounded,
                          !.desired = desired,
                          !.computed = IF inp.colliderOk THEN cast.mv ELSE Zero3,
                          !.squeezing = inp.colliderOk /\ squeezing,
                          !.threw = throwAtPhysics,
                          !.controller = IF inp.colliderOk THEN characterControllerRef
                                         ELSE NoController]
      infoJ == [pre EXCEPT !.ran = TRUE, !.speed = speed, !.movement = Vec(mv.x, 0, mv.z),
                           !.rotationDelta = rotationDelta, !.threw = TRUE]
  IN  /\ pc = "player"
      /\ Abs(currentRotation) <= MaxYaw
      /\ Abs(grp0) <= MaxYaw
      /\ pc' = "idle"
      /\ teleportedTo' = NoTeleport
      /\ UNCHANGED << playerRef, characterControllerRef, playerGroupRef, rotation,
                      scale, stamina, controls, levaControls, session, xrSpeed,
                      companion, frameDelta, frames, lifecycleVars >>
      /\ IF ~ran
           THEN /\ translation' = pos0
                /\ groupRotationY' = grp0
                /\ pending' = pend0
                /\ renderPending' = (renderPending \/ pend0 # NoPending)
                /\ last' = LastOf("frame", inp0, delta, Zero3, pre)
                /\ UNCHANGED << linvel, staminaRef, velocityRef, isJumpingRef,
                                squeezeModeRef, companionTargetRef >>
           ELSE IF throwAtJump
           THEN /\ squeezeModeRef' = inp.squeeze
                /\ groupRotationY' = currentRotation
                /\ companionTargetRef' = CompanionTarget(pos0, currentRotation)
                /\ translation' = pos0
                /\ pending' = pendJ
                /\ renderPending' = (renderPending \/ pendJ # NoPending)
                /\ last' = LastOf("frame", inp0, delta, Zero3, infoJ)
                /\ UNCHANGED << linvel, staminaRef, velocityRef, isJumpingRef >>
           ELSE /\ squeezeModeRef' = inp.squeeze
                /\ groupRotationY' = currentRotation
                /\ companionTargetRef' = CompanionTarget(pos0, currentRotation)
                /\ staminaRef' = st
                /\ pending' = pend1
                /\ renderPending' = (renderPending \/ pend1 # NoPending)
                /\ last' = LastOf("frame", inp0, delta, Zero3, info)
                /\ velocityRef' = Vec(mv.x, fv.y, mv.z)
                /\ isJumpingRef' = fv.jumping
                /\ IF ~inp.colliderOk
                     THEN /\ translation' = pos0
                          /\ UNCHANGED linvel
                     ELSE IF squeezing
                            THEN /\ translation' = VAdd(pos0, Vec(desired.x, cast.mv.y, desired.z))
                                 /\ linvel' = Vec(0, FDiv(cast.mv.y, delta), 0)
                            ELSE /\ translation' = pos0
                                 /\ linvel' = VDiv(cast.mv, delta)

\* TeleportState without the reset of the jump state.
TeleportStateKeepsJump(target) ==
  [translation |-> Vec(target.x, target.y + teleportOffsetY, target.z),
   linvel |-> Zero3, velocityRef |-> Zero3, isJumping |-> isJumpingRef]

\* TeleportState without playerRef.current.setLinvel({0, 0, 0}).
TeleportStateKeepsLinvel(target) ==
  [translation |-> Vec(target.x, target.y + teleportOffsetY, target.z),
   linvel |-> linvel, velocityRef |-> Zero3, isJumping |-> FALSE]

\* What handleTeleport writes when the player body exists.
TeleportState(target) ==
  [translation |-> Vec(target.x, target.y + teleportOffsetY, target.z),
   linvel |-> Zero3, velocityRef |-> Zero3, isJumping |-> FALSE]

\* handleTeleport(newPosition); setPosition schedules a render.
handleTeleport(target) ==
  /\ last' = LastOf("teleport", NoInput, 0, target,
                    [NoFrame EXCEPT !.preVy = velocityRef.y, !.preJumping = isJumpingRef,
                                    !.preLinvel = linvel, !.preTranslation = translation])
  /\ IF playerRef
       THEN /\ renderPending' = TRUE
            /\ translation' = TeleportState(target).translation
            /\ linvel' = TeleportState(target).linvel
            /\ velocityRef' = TeleportState(target).velocityRef
            /\ isJumpingRef' = TeleportState(target).isJumping
            /\ teleportedTo' = [since |-> TRUE, at |-> TeleportState(target).translation,
                                preLinvel |-> linvel]
       ELSE UNCHANGED << translation, linvel, velocityRef, isJumpingRef, teleportedTo,
                       renderPending >>
  /\ UNCHANGED << playerRef, characterControllerRef, playerGroupRef, groupRotationY,
                  rotation, scale, stamina, pending,
                  staminaRef, squeezeModeRef, companionTargetRef, controls, levaControls,
                  session, xrSpeed, companion, frameDelta, pc, frames, lifecycleVars >>

\* The stamina sync effect (dependencies maxStamina and stamina), given the
\* stamina state and the maxStamina of the render it belongs to: the new
\* staminaRef.current and the value handed to setStamina (or NoUpdate).
StaminaSyncEffect(st, maxStamina) ==
  IF st > maxStamina
    THEN [ref |-> maxStamina, set |-> maxStamina]
    ELSE [ref |-> st, set |-> NoUpdate]

\* A render of CharacterPlayer with its effects: the queued state updates and
\* the panel's control values are committed, the hook options are
\* re-evaluated (speed: getXRSpeed()), and the stamina sync effect runs when
\* one of its dependencies changed.
Render ==
  LET st == IF pending.stamina # NoUpdate THEN pending.stamina ELSE stamina
      depsChanged == st # stamina \/ levaControls.maxStamina # controls.maxStamina
      eff == StaminaSyncEffect(st, levaControls.maxStamina)
  IN  /\ pc = "idle"
      /\ renderPending
      /\ scale' = IF pending.scale # NoUpdate THEN pending.scale ELSE scale
      /\ rotation' = IF pending.rotation # NoUpdate THEN pending.rotation ELSE rotation
      /\ stamina' = st
      /\ controls' = levaControls
      /\ xrSpeed' = getXRSpeed(levaControls, staminaRef)
      /\ staminaRef' = IF depsChanged THEN eff.ref ELSE staminaRef
      /\ pending' = IF depsChanged THEN [NoPending EXCEPT !.stamina = eff.set] ELSE NoPending
      /\ renderPending' = (depsChanged /\ eff.set # NoUpdate)
      /\ last' = LastOf("render", NoInput, 0, Zero3, NoFrame)
      /\ UNCHANGED << playerRef, translation, linvel, characterControllerRef, playerGroupRef,
                      groupRotationY, velocityRef, isJumpingRef, squeezeModeRef,
                      companionTargetRef, levaControls, session, companion, frameDelta,
                      pc, frames, lifecycleVars, teleportedTo >>

\* A change of one of the leva "Properties" controls; the component re-renders.
SetControl(name, value) ==
  /\ pc = "idle"
  /\ levaControls[name] # value
  /\ levaControls' = [levaControls EXCEPT ![name] = value]
  /\ renderPending' = TRUE
  /\ last' = LastOf("control", NoInput, 0, Zero3, NoFrame)
  /\ UNCHANGED << playerRef, translation, linvel, characterControllerRef, playerGroupRef,
                  groupRotationY, rotation, scale, stamina, pending, staminaRef,
                  velocityRef, isJumpingRef, squeezeModeRef, companionTargetRef, controls,
                  session, xrSpeed, companion, frameDelta, pc, frames, lifecycleVars,
                  teleportedTo >>

(***************************************************************************)
(* The companion (Companion useFrame).                                     *)
(***************************************************************************)
RECURSIVE SqrtSearch(_, _, _)
\* The largest r in lo..hi with r * r <= n.
SqrtSearch(n, lo, hi) ==
  IF lo >= hi THEN lo
  ELSE LET mid == (lo + hi + 1) \div 2
       IN  IF mid * mid <= n THEN SqrtSearch(n, mid, hi) ELSE SqrtSearch(n, lo, mid - 1)

\* Math.sqrt, to the unit below.
Sqrt(n) == SqrtSearch(n, 0, 46340)

\* distanceToTarget in the XZ plane, in mm.
DistanceToTarget(pos, target) ==
  LET dx == RDiv(target.x - pos.x, 1000)
      dz == RDiv(target.z - pos.z, 1000)
  IN  IF NaN \in {pos.x, pos.z, target.x, target.z} THEN NaN
      ELSE Sqrt(dx * dx + dz * dz)

deadZoneDistance == 50

maxMultiplier == 8000

squeezeDistance == 100

\* SpeedMultiplier growing with the distance ratio instead of its square.
SpeedMultiplierLinear(d, followDistance) ==
  LET ratio == RDiv(d * 1000, followDistance)
  IN  Min(ratio * 5 + 1000, maxMultiplier)

\* speedMultiplier = min(baseAttraction + 1, 8.0), in thousandths.
SpeedMultiplier(d, followDistance) ==
  LET ratio == RDiv(d * 1000, followDistance)
      baseAttraction == RDiv(ratio * ratio, 1000) * 5
  IN  Min(baseAttraction + 1000, maxMultiplier)

\* movementX / movementZ of the companion, in mm/s.
CompanionMovement(pos, target, followDistance, followSpeed) ==
  LET d == DistanceToTarget(pos, target)
      dx == RDiv(target.x - pos.x, 1000)
      dz == RDiv(target.z - pos.z, 1000)
  IN  IF d > deadZoneDistance
        THEN LET directionX == RDiv(dx * 1000, d)
                 directionZ == RDiv(dz * 1000, d)
                 m == SpeedMultiplier(d, followDistance)
             IN  Vec(RDiv(RDiv(directionX * followSpeed, 1000) * m, 1000), 0,
                     RDiv(RDiv(directionZ * followSpeed, 1000) * m, 1000))
        ELSE Zero3

\* One frame of the companion.
CompanionFrame(inp) ==
  LET delta == frameDelta
      c == companion
      worldOk == world # NoWorld
      ran == /\ mounted.companion
             /\ c.enabled /\ c.body /\ c.controller # NoController /\ playerRef
      d == DistanceToTarget(c.translation, companionTargetRef)
      mv == CompanionMovement(c.translation, companionTargetRef, c.followDistance, c.followSpeed)
      desired == Vec(mv.x * delta, gravity * delta, mv.z * delta)
      threw == ran /\ (~worldOk \/ (inp.colliderOk /\ ~c.squeezeProp))
      squeezing == c.squeezeProp /\ squeezeModeRef /\ d > squeezeDistance
      castY == ShapeCast(inp.cast, Vec(0, desired.y, 0))
      cast == ShapeCast(inp.cast, desired)
      info == [NoFrame EXCEPT !.ran = ran, !.movement = mv, !.distance = d,
                              !.castRan = ran /\ inp.colliderOk /\ ~threw,
                              !.desired = desired,
                              !.computed = IF squeezing THEN castY.mv ELSE cast.mv,
                              !.squeezing = squeezing, !.threw = threw,
                              !.preTranslation = c.translation,
                              !.controller = IF ran /\ inp.colliderOk /\ ~threw
                                               THEN c.controller ELSE NoController]
  IN  /\ pc = "companion"
      /\ pc' = IF threw THEN "idle" ELSE "player"
      /\ last' = LastOf("companion", inp, delta, companionTargetRef,
                        IF ran THEN info ELSE NoFrame)
      /\ IF ~ran \/ ~inp.colliderOk \/ threw
           THEN companion' = IF ran THEN [c EXCEPT !.prevDistance = c.lastDistance,
                                                   !.lastDistance = d]
                                    ELSE c
           ELSE IF squeezing
                  THEN companion' = [c EXCEPT !.translation =
                                        VAdd(c.translation, Vec(desired.x, castY.mv.y, desired.z)),
                                      !.prevDistance = c.lastDistance, !.lastDistance = d]
                  ELSE companion' = [c EXCEPT !.linvel = VDiv(cast.mv, delta),
                                      !.prevDistance = c.lastDistance, !.lastDistance = d]
      /\ UNCHANGED << playerRef, translation, linvel, characterControllerRef, playerGroupRef,
                      groupRotationY, rotation, scale, stamina, pending, renderPending,
                      staminaRef, velocityRef, isJumpingRef, squeezeModeRef,
                      companionTargetRef, controls, levaControls, session, xrSpeed,
                      frameDelta, frames, lifecycleVars, teleportedTo >>

(***************************************************************************)
(* The physics world step that opens an animation frame: the two           *)
(* kinematic-velocity bodies advance by their linear velocity.             *)
(***************************************************************************)
\* The step itself; n is the number of frames started after it.
FrameStart(delta, n) ==
  /\ pc = "idle"
  /\ ~renderPending
  /\ frames' = n
  /\ frameDelta' = delta
  /\ pc' = "companion"
  /\ translation' = IF playerRef THEN VAdd(translation, VScale(linvel, delta)) ELSE translation
  /\ companion' = IF companion.body
                    THEN [companion EXCEPT !.translation = VAdd(@, VScale(companion.linvel, delta))]
                    ELSE companion
  /\ last' = LastOf("step", NoInput, delta, Zero3, NoFrame)
  /\ UNCHANGED << playerRef, linvel, characterControllerRef, playerGroupRef,
                  groupRotationY, rotation, scale, stamina, pending, renderPending,
                  staminaRef, velocityRef, isJumpingRef, squeezeModeRef,
                  companionTargetRef, controls, levaControls, session, xrSpeed,
                  lifecycleVars, teleportedTo >>

\* The step that opens one of the first MaxFrames frames.
WorldStep(delta) ==
  /\ frames < MaxFrames
  /\ FrameStart(delta, frames + 1)

(***************************************************************************)
(* The character-controller effect of the two components (dependencies    *)
(* world, rapier, slopeSettings) and the events that run it.               *)
(***************************************************************************)
\* A character controller created in world w for a component.
ControllerOf(w, id, owner) == [world |-> w, id |-> id, owner |-> owner]

NoCleanup == ControllerOf(NoWorld, NoController, "none")

\* ControllerCleanup that removes nothing (the effect returns no cleanup).
ControllerCleanupSkipped(reg, cl) == reg

\* The effect's cleanup: world.removeCharacterController(controller), with
\* the world and the controller of the run that returned it.
ControllerCleanup(reg, cl) == reg \ {cl}

\* ControllerEffect that stores the new controller only in an empty ref.
ControllerEffectKeepsRef(reg, cl, ref, owner, w, id) ==
  LET reg1 == ControllerCleanup(reg, cl)
  IN  IF w # NoWorld
        THEN [registered |-> reg1 \cup {ControllerOf(w, id, owner)},
              cleanup |-> ControllerOf(w, id, owner),
              ref |-> IF ref = NoController THEN id ELSE ref, made |-> 1]
        ELSE [registered |-> reg1, cleanup |-> NoCleanup, ref |-> ref, made |-> 0]

\* A re-run of the effect for world w: the previous run's cleanup, then, if
\* there is a world, a new controller stored in characterControllerRef and a
\* new cleanup; without a world the ref is left as it is.
ControllerEffect(reg, cl, ref, owner, w, id) ==
  LET reg1 == ControllerCleanup(reg, cl)
  IN  IF w # NoWorld
        THEN [registered |-> reg1 \cup {ControllerOf(w, id, owner)},
              cleanup |-> ControllerOf(w, id, owner), ref |-> id, made |-> 1]
        ELSE [registered |-> reg1, cleanup |-> NoCleanup, ref |-> ref, made |-> 0]

\* useRapier() returns another world (or none): both components re-render
\* and their controller effects re-run, the child's first.
WorldChange(w) ==
  LET co == ControllerEffect(registered, cleanups.companion, companion.controller,
                             "companion", w, created + 1)
      pl == ControllerEffect(co.registered, cleanups.player, characterControllerRef,
                             "player", w, created + 1 + co.made)
  IN  /\ pc = "idle"
      /\ ~renderPending
      /\ mounted.player
      /\ w # world
      /\ w # NoWorld => created + 2 <= MaxControllers
      /\ world' = w
      /\ registered' = pl.registered
      /\ cleanups' = [player |-> pl.cleanup, companion |-> co.cleanup]
      /\ characterControllerRef' = pl.ref
      /\ companion' = [companion EXCEPT !.controller = co.ref]
      /\ created' = created + co.made + pl.made
      /\ last' = LastOf("world", NoInput, 0, Zero3, NoFrame)
      /\ UNCHANGED << playerRef, translation, linvel, playerGroupRef, groupRotationY,
                      rotation, scale, stamina, pending, renderPending, staminaRef,
                      velocityRef, isJumpingRef, squeezeModeRef, companionTargetRef,
                      controls, levaControls, session, xrSpeed, frameDelta, pc, frames,
                      mounted, teleportedTo, teleportHandlerRef, cacheVars >>

\* CharacterPlayer unmounts, and the Companion it renders with it: the
\* cleanups run, the frame callbacks are unsubscribed and React clears the
\* refs of the unmounted objects.
Unmount ==
  /\ pc = "idle"
  /\ mounted.player
  /\ registered' = ControllerCleanup(ControllerCleanup(registered, cleanups.companion),
                                     cleanups.player)
  /\ cleanups' = [player |-> NoCleanup, companion |-> NoCleanup]
  /\ mounted' = [player |-> FALSE, companion |-> FALSE]
  /\ playerRef' = FALSE
  /\ playerGroupRef' = FALSE
  /\ companion' = [companion EXCEPT !.body = FALSE]
  /\ last' = LastOf("unmount", NoInput, 0, Zero3, NoFrame)
  /\ UNCHANGED << translation, linvel, characterControllerRef, groupRotationY,
                  rotation, scale, stamina, pending, renderPending, staminaRef,
                  velocityRef, isJumpingRef, squeezeModeRef, companionTargetRef,
                  controls, levaControls, session, xrSpeed, frameDelta, pc, frames,
                  world, created, teleportedTo, teleportHandlerRef, cacheVars >>

(***************************************************************************)
(* Initial states.                                                         *)
(***************************************************************************)
\* distanceToTarget of the companion's last two updates is kept in the
\* companion record (lastDistance, prevDistance); NoDistance before an update.
NoDistance == -1

defaultControls ==
  [maxWalkingSpeed |-> 5000, staminaEnabled |-> FALSE, maxStamina |-> 100000,
   staminaRegenRate |-> 20]

spawnPosition == Vec(-20000000, 2000000, 0)

companionSpawn == Vec(-22000000, 2000000, -2000000)

defaultCompanion ==
  [enabled |-> FALSE, body |-> FALSE, controller |-> 1, squeezeProp |-> FALSE,
   translation |-> companionSpawn, linvel |-> Zero3,
   followDistance |-> 2000, followSpeed |-> 3000,
   lastDistance |-> NoDistance, prevDistance |-> NoDistance]

\* The state after the first render and its effects, for the given control
\* values, stamina, scale, session and companion.
InitWith(ctl, st, sc, sess, comp, target, delta) ==
  /\ playerRef = TRUE
  /\ translation = spawnPosition
  /\ linvel = Zero3
  /\ characterControllerRef = 2
  /\ playerGroupRef = TRUE
  /\ groupRotationY = 0
  /\ rotation = 0
  /\ scale = sc
  /\ stamina = st
  /\ pending = NoPending
  /\ renderPending = FALSE
  /\ staminaRef = st
  /\ velocityRef = Zero3
  /\ isJumpingRef = FALSE
  /\ squeezeModeRef = FALSE
  /\ companionTargetRef = target
  /\ controls = ctl
  /\ levaControls = ctl
  /\ session = sess
  /\ xrSpeed = getXRSpeed(ctl, st)
  /\ companion = comp
  /\ frameDelta = delta
  /\ pc = "idle"
  /\ frames = 0
  /\ world = 1
  /\ registered = {ControllerOf(1, 1, "companion"), ControllerOf(1, 2, "player")}
  /\ mounted = [player |-> TRUE, companion |-> TRUE]
  /\ cleanups = [player |-> ControllerOf(1, 2, "player"),
                 companion |-> ControllerOf(1, 1, "companion")]
  /\ created = 2
  /\ teleportedTo = NoTeleport
  /\ teleportHandlerRef = TRUE
  /\ models = {}
  /\ response = NoResponse
  /\ last = LastOf("init", NoInput, 0, Zero3, NoFrame)

initialScale == 165

(***************************************************************************)
(* Specification of desktop locomotion: walking, jumping and teleporting   *)
(* from the spawn state.                                                   *)
(***************************************************************************)
Deltas == {100, 400}

WalkInputs ==
  { [NoInput EXCEPT !.jump = j, !.forward = f, !.cast = k, !.probeGrounded = g] :
      j \in BOOLEAN, f \in BOOLEAN, g \in BOOLEAN, k \in {"free", "floor"} }
  \cup { [NoInput EXCEPT !.colliderOk = FALSE, !.jump = j] : j \in BOOLEAN }
  \cup { [NoInput EXCEPT !.forward = TRUE, !.squeeze = TRUE, !.cast = "wallfloor"],
         [NoInput EXCEPT !.rotateLeft = TRUE],
         [NoInput EXCEPT !.forward = TRUE, !.cast = "wall"] }

CompanionIdle == {NoInput}

TeleportTargets == {Vec(0, 0, 0), Vec(3000000, 1000000, -4000000)}

Init ==
  InitWith(defaultControls, defaultControls.maxStamina, initialScale, FALSE,
           defaultCompanion, Zero3, 0)

Next ==
  \/ \E delta \in Deltas : WorldStep(delta)
  \/ \E inp \in CompanionIdle : CompanionFrame(inp)
  \/ \E inp \in WalkInputs : PlayerFrame(inp)
  \/ \E target \in TeleportTargets : pc = "idle" /\ handleTeleport(target)
  \/ Render

Spec == Init /\ [][Next]_vars

(***************************************************************************)
(* Properties of desktop locomotion (specification Spec).                  *)
(***************************************************************************)
\* The state was produced by a player frame that passed the guard.
FrameRan == last.op = "frame" /\ last.info.ran

\* C1 - Teleport atomicity: right after handleTeleport(T) with the player
\* body present, the body is at T raised by the fixed offset, its linear
\* velocity and the tracked velocity are zero and the jumping flag is clear,
\* whatever the locomotion state was before.
TeleportAtomicity ==
  (last.op = "teleport" /\ playerRef) =>
    /\ translation = Vec(last.target.x, last.target.y + teleportOffsetY, last.target.z)
    /\ linvel = Zero3
    /\ velocityRef = Zero3
    /\ ~isJumpingRef

\* A teleport out of a jump in progress, with the body moving.
TeleportAtomicityWitness ==
  /\ last.op = "teleport"
  /\ playerRef
  /\ last.info.preJumping
  /\ last.info.preVy # 0
  /\ last.info.preLinvel # Zero3

\* C5 - Jump requires ground: a frame that starts with jumping = TRUE and has
\* the jump intent set ends with the vertical velocity and jumping flag of
\* the same frame without the jump intent; no jump starts in it.
JumpRequiresGround ==
  (FrameRan /\ last.info.preJumping /\ last.inp.jump) =>
    LET same == FrameVertical(last.info.preVy, TRUE, [last.inp EXCEPT !.jump = FALSE], last.delta)
    IN  /\ velocityRef.y = same.y
        /\ isJumpingRef = same.jumping
        /\ ~last.info.jumpStarted

\* A jump intent during a jump, with the probe reporting grounded.
JumpRequiresGroundWitness ==
  /\ FrameRan
  /\ last.info.preJumping
  /\ last.inp.jump
  /\ last.inp.colliderOk
  /\ last.inp.probeGrounded

\* C6 - Grounded-landing idempotence: a frame that starts with
\* verticalVelocity = 0 and jumping = FALSE, has no jump intent and whose
\* shape-cast reports grounded ends with verticalVelocity = 0 and
\* jumping = FALSE, for every delta.
GroundedIdempotence ==
  (FrameRan /\ last.info.preVy = 0 /\ ~last.info.preJumping /\ ~last.inp.jump
     /\ last.info.grounded) =>
    (velocityRef.y = 0 /\ ~isJumpingRef)

\* The third grounded frame in a row without a jump intent.
GroundedIdempotenceWitness ==
  /\ FrameRan
  /\ frames >= 3
  /\ last.info.preVy = 0
  /\ ~last.info.preJumping
  /\ ~last.inp.jump
  /\ last.info.grounded
  /\ last.delta = 400

\* C9 as stated - the frame in which the jump starts ends with
\* verticalVelocity = jumpVelocity.
JumpArcAsStated ==
  (FrameRan /\ last.info.jumpStarted) => velocityRef.y = jumpVelocity

\* C9 as the code has it - Jump arc: the frame in which the jump starts sets
\* verticalVelocity to 3 and integrates gravity in the same frame, so it ends
\* with 3 - 9.81 * dt; every later frame lowers verticalVelocity by
\* 9.81 * dt; a frame whose shape-cast reports grounded with the
\* post-gravity verticalVelocity <= 0 ends with verticalVelocity = 0 and
\* jumping = FALSE.
JumpArc ==
  FrameRan =>
    LET start == IF last.info.jumpStarted THEN 3000 ELSE last.info.preVy
        fallen == start - RDiv(9810 * last.delta, 1000)
    IN  IF last.info.grounded /\ fallen <= 0
          THEN velocityRef.y = 0 /\ ~isJumpingRef
          ELSE velocityRef.y = fallen /\ isJumpingRef = (last.info.jumpStarted \/ last.info.preJumping)

\* A jump started from rest, two frames ago, now landing.
JumpArcWitness ==
  /\ FrameRan
  /\ last.info.preJumping
  /\ last.info.preVy = 3000 - 981 - 981
  /\ last.info.grounded
  /\ velocityRef.y = 0
  /\ ~isJumpingRef

\* Only the forward intent is set and no XR input is given.
OnlyForward(inp) ==
  /\ inp.forward
  /\ ~inp.back /\ ~inp.left /\ ~inp.right /\ ~inp.jump /\ ~inp.squeeze
  /\ ~inp.rotateLeft /\ ~inp.rotateRight /\ ~inp.grow /\ ~inp.shrink
  /\ inp.leftX = 0 /\ inp.leftY = 0 /\ inp.rightX = 0

\* C10 - Basic forward walk: with only the forward intent, stamina disabled
\* and the shape-cast returning the horizontal displacement unchanged, the
\* frame's horizontal displacement is maxWalkingSpeed * delta along
\* (-sin(yaw), -cos(yaw)); for maxWalkingSpeed = 5, delta = 0.1 and yaw = 0
\* it is (0, -0.5).
ForwardWalk ==
  (FrameRan /\ OnlyForward(last.inp) /\ ~controls.staminaEnabled /\ last.info.castRan
     /\ last.info.computed.x = last.info.desired.x
     /\ last.info.computed.z = last.info.desired.z) =>
    /\ linvel.x * last.delta = RDiv(-Sin(groupRotationY) * controls.maxWalkingSpeed, 1000) * last.delta
    /\ linvel.z * last.delta = RDiv(-Cos(groupRotationY) * controls.maxWalkingSpeed, 1000) * last.delta
    /\ (controls.maxWalkingSpeed = 5000 /\ last.delta = 100 /\ groupRotationY = 0) =>
         (linvel.x * last.delta = 0 /\ linvel.z * last.delta = -500000)

\* The forward walk of the example, and one at a yaw other than zero.
ForwardWalkWitness ==
  /\ FrameRan
  /\ OnlyForward(last.inp)
  /\ last.delta = 100
  /\ last.info.computed.z = last.info.desired.z
  /\ \/ groupRotationY = 0 /\ linvel.z = -5000 /\ linvel.x = 0
     \/ groupRotationY = 100 /\ linvel.x = -499

\* C14 - Jump start: a jump starts (verticalVelocity set to 3, jumping set)
\* exactly in the frames with the jump intent set, jumping = FALSE at the
\* start, a collider and the zero-displacement probe reporting grounded; the
\* velocity handed on to gravity is 3 in those frames and the previous
\* verticalVelocity in every other frame, and jumping does not become TRUE
\* in any other frame.
JumpStart ==
  FrameRan =>
    LET cond == /\ last.inp.jump
                /\ ~last.info.preJumping
                /\ last.inp.colliderOk
                /\ last.inp.probeGrounded
        vy0 == IF cond THEN jumpVelocity ELSE last.info.preVy
        vy1 == vy0 + RDiv(gravity * last.delta, 1000)
    IN  /\ last.info.jumpStarted = cond
        /\ last.info.desired.y = vy1 * last.delta
        /\ (~cond /\ ~last.info.preJumping) => ~isJumpingRef
        /\ (cond /\ ~(last.info.grounded /\ vy1 <= 0)) => isJumpingRef

\* A jump started from the ground with delta = 0.1 s.
JumpStartWitness ==
  /\ FrameRan
  /\ last.inp.jump
  /\ last.info.jumpStarted
  /\ ~last.info.preJumping
  /\ last.delta = 100
  /\ velocityRef.y = 2019
  /\ isJumpingRef

\* C15 - Gravity before landing clamp: in every frame that passes the guard
\* gravity * delta is added to verticalVelocity, the desired vertical
\* displacement handed to the shape-cast is the post-gravity velocity times
\* delta, and only after that query the velocity is set to 0 and jumping
\* cleared, when the query reports grounded and the post-gravity velocity
\* is <= 0; without a query nothing is clamped.
GravityBeforeClamp ==
  FrameRan =>
    LET vy0 == IF last.info.jumpStarted THEN jumpVelocity ELSE last.info.preVy
        vy1 == vy0 + RDiv(gravity * last.delta, 1000)
        landed == last.info.castRan /\ last.info.grounded /\ vy1 <= 0
    IN  /\ last.info.desired.y = vy1 * last.delta
        /\ velocityRef.y = IF landed THEN 0 ELSE vy1
        /\ isJumpingRef = IF landed THEN FALSE
                          ELSE (last.info.jumpStarted \/ last.info.preJumping)

\* A frame at rest on the ground: the shape-cast was asked for a downward
\* displacement although the frame ends with verticalVelocity = 0.
GravityBeforeClampWitness ==
  /\ FrameRan
  /\ last.info.preVy = 0
  /\ ~last.inp.jump
  /\ last.info.castRan
  /\ last.info.grounded
  /\ last.info.desired.y = -981 * 100
  /\ velocityRef.y = 0

(***************************************************************************)
(* Specification of scaling: grow / shrink intents from the keyboard and   *)
(* from the XR buttons, started at the initial scale and next to the two   *)
(* limits.                                                                 *)
(***************************************************************************)
ScaleStarts == {minScale, initialScale, maxScale - 1}

XRButtons == {<<FALSE, FALSE>>, <<TRUE, FALSE>>, <<FALSE, TRUE>>}

ScaleInputs ==
  { [NoInput EXCEPT !.grow = g, !.shrink = s, !.leftGamepad = TRUE,
                    !.xButton = b[1], !.yButton = b[2]] :
      g \in BOOLEAN, s \in BOOLEAN, b \in XRButtons }

InitScale ==
  \E sc \in ScaleStarts, sess \in BOOLEAN :
    InitWith(defaultControls, defaultControls.maxStamina, sc, sess, defaultCompanion, Zero3, 0)

NextScale ==
  \/ WorldStep(100)
  \/ CompanionFrame(NoInput)
  \/ \E inp \in ScaleInputs : PlayerFrame(inp)
  \/ Render

SpecScale == InitScale /\ [][NextScale]_vars

\* C2 - Scale clamp: the scale, and every value handed to setScale, is
\* within [0.3, 3.0] after every frame, for every combination of keyboard
\* and XR grow / shrink intents.
ScaleClamp ==
  /\ minScale <= scale
  /\ scale <= maxScale
  /\ pending.scale # NoUpdate => (minScale <= pending.scale /\ pending.scale <= maxScale)

\* A grow intent in a frame that starts at the upper limit.
ScaleClampWitness ==
  /\ FrameRan
  /\ last.inp.grow \/ (session /\ last.inp.yButton)
  /\ ~last.inp.shrink
  /\ scale = maxScale
  /\ pending.scale = NoUpdate

(***************************************************************************)
(* Specification of stamina: walking and resting in an XR session with     *)
(* the stamina controls being changed in the panel.                        *)
(***************************************************************************)
StaminaStarts == {5500, 30500, 100000}

StaminaDeltas == {100, 10000}

MaxStaminaValues == {50000, 200000}

StaminaInputs ==
  { NoInput,
    [NoInput EXCEPT !.forward = TRUE, !.leftGamepad = TRUE, !.leftY = -100] }

InitStamina ==
  \E st \in StaminaStarts :
    InitWith([defaultControls EXCEPT !.staminaEnabled = TRUE], st, initialScale, TRUE,
             defaultCompanion, Zero3, 0)

NextStamina ==
  \/ \E delta \in StaminaDeltas : WorldStep(delta)
  \/ CompanionFrame(NoInput)
  \/ \E inp \in StaminaInputs : PlayerFrame(inp)
  \/ Render
  \/ \E v \in MaxStaminaValues : SetControl("maxStamina", v)
  \/ \E b \in BOOLEAN : SetControl("staminaEnabled", b)

SpecStamina == InitStamina /\ [][NextStamina]_vars

\* C3 - Stamina clamp: staminaRef.current is within [0, maxStamina] in every
\* state, and so is the stamina state once the pending render has run, also
\* after the maxStamina control is changed and the sync effect has run.
StaminaClamp ==
  /\ 0 <= staminaRef
  /\ staminaRef <= controls.maxStamina
  /\ ~renderPending => (0 <= stamina /\ stamina <= controls.maxStamina)

\* maxStamina was lowered below the stamina and the sync effect has cut the
\* stamina down to it.
StaminaClampWitness ==
  /\ last.op = "render"
  /\ ~renderPending
  /\ controls.maxStamina = 50000
  /\ stamina = 50000
  /\ staminaRef = 50000

\* C4 - Stamina gating: in a frame with staminaEnabled and stamina < 5 the
\* movement speed is 0: the frame's movement (keyboard and thumbstick) is
\* zero and the velocity of the XR controller-locomotion callback, scaled by
\* getXRSpeed(), is zero.
StaminaGating ==
  (last.op = "frame" /\ controls.staminaEnabled /\ last.info.preStamina < staminaStop) =>
    /\ last.info.hookVelocity = Zero3
    /\ last.info.ran => /\ last.info.speed = 0
                        /\ last.info.movement = Zero3
                        /\ velocityRef.x = 0 /\ velocityRef.z = 0
                        /\ linvel.x = 0 /\ linvel.z = 0

\* A frame below 5 stamina with the forward key and the thumbstick held.
StaminaGatingWitness ==
  /\ FrameRan
  /\ session
  /\ controls.staminaEnabled
  /\ last.info.preStamina < staminaStop
  /\ last.info.hook
  /\ last.inp.forward
  /\ last.inp.leftY # 0

(***************************************************************************)
(* Specification of XR input: thumbstick values around the deadzone.       *)
(***************************************************************************)
XRInputs ==
  { [NoInput EXCEPT !.leftGamepad = TRUE, !.rightGamepad = TRUE,
                    !.leftX = a[1], !.leftY = a[2], !.rightX = a[3],
                    !.forward = a[4], !.rotateLeft = a[5], !.head = a[6]] :
      a \in { <<8, -50, 0, FALSE, FALSE, NoHead>>,
              <<50, 10, 0, FALSE, FALSE, 3100>>,
              <<-10, 8, 10, FALSE, FALSE, NoHead>>,
              <<0, 0, -8, TRUE, TRUE, NoHead>>,
              <<-50, 11, 50, FALSE, FALSE, 700>>,
              <<0, 0, 0, TRUE, FALSE, NoHead>>,
              <<10, -100, -10, TRUE, FALSE, 3100>>,
              <<0, -11, 11, FALSE, FALSE, NoHead>> } }

InitXR ==
  InitWith(defaultControls, defaultControls.maxStamina, initialScale, TRUE,
           defaultCompanion, Zero3, 0)

NextXR ==
  \/ WorldStep(100)
  \/ CompanionFrame(NoInput)
  \/ \E inp \in XRInputs : PlayerFrame(inp)
  \/ Render

SpecXR == InitXR /\ [][NextXR]_vars

\* The input with every thumbstick axis of magnitude <= 0.1 set to 0.
Zeroed(inp) ==
  [inp EXCEPT !.leftX = IF Abs(@) <= deadzone THEN 0 ELSE @,
              !.leftY = IF Abs(@) <= deadzone THEN 0 ELSE @,
              !.rightX = IF Abs(@) <= deadzone THEN 0 ELSE @]

CompanionStarts == {companionSpawn, Vec(-22500000, 2000000, -2000000)}

CompanionDeltas == {16, 100}

FollowSpeeds == {3000, 8000}

FollowDistances == {1000, 2000}

CompanionInputs == { [NoInput EXCEPT !.cast = k] : k \in {"free", "floor"} }

InitCompanion ==
  \E start \in CompanionStarts, fs \in FollowSpeeds, fd \in FollowDistances,
     delta \in CompanionDeltas :
    InitWith(defaultControls, defaultControls.maxStamina, initialScale, FALSE,
             [defaultCompanion EXCEPT !.enabled = TRUE, !.body = TRUE, !.squeezeProp = TRUE,
                                      !.translation = start, !.followSpeed = fs,
                                      !.followDistance = fd],
             CompanionTarget(spawnPosition, 0), delta)

NextCompanion ==
  \/ WorldStep(frameDelta)
  \/ \E inp \in CompanionInputs : CompanionFrame(inp)
  \/ PlayerFrame(NoInput)

SpecCompanion == InitCompanion /\ [][NextCompanion]_vars

\* C7 - Companion convergence: from update to update the distance to the
\* stationary target strictly decreases until it is <= 0.05, and from then
\* on the companion's horizontal movement is zero.
CompanionConvergence ==
  /\ companion.prevDistance > deadZoneDistance =>
       companion.lastDistance < companion.prevDistance
  /\ (companion.prevDistance # NoDistance /\ companion.prevDistance <= deadZoneDistance) =>
       (companion.lastDistance <= deadZoneDistance
          /\ companion.linvel.x = 0 /\ companion.linvel.z = 0)

(***************************************************************************)
(* Specification of teleporting: handleTeleport called at any point of the *)
(* frame cycle (between frames and between the callbacks of a frame), on   *)
(* the desktop and in an XR session.                                       *)
(***************************************************************************)
TeleportInputs ==
  { NoInput,
    [NoInput EXCEPT !.jump = TRUE, !.forward = TRUE],
    [NoInput EXCEPT !.forward = TRUE, !.cast = "free"],
    [NoInput EXCEPT !.leftGamepad = TRUE, !.leftY = -100, !.cast = "free"] }

InitTeleport ==
  \E sess \in BOOLEAN :
    InitWith(defaultControls, defaultControls.maxStamina, initialScale, sess,
             defaultCompanion, Zero3, 0)

NextTeleport ==
  \/ WorldStep(100)
  \/ CompanionFrame(NoInput)
  \/ \E inp \in TeleportInputs : PlayerFrame(inp)
  \/ \E target \in TeleportTargets : handleTeleport(target)
  \/ Render

SpecTeleport == InitTeleport /\ [][NextTeleport]_vars

\* C11 - Teleport is never overwritten: from a teleport until the next
\* locomotion update of the player begins (through the rest of the frame,
\* the world step and the companion's update), the body stays at the
\* teleported position with zero linear velocity, and that update starts with
\* verticalVelocity = 0 and jumping = FALSE.
TeleportNotOverwritten ==
  teleportedTo.since =>
    /\ translation = teleportedTo.at
    /\ linvel = Zero3
    /\ velocityRef = Zero3
    /\ ~isJumpingRef

\* The player's update is about to start in the frame after a teleport that
\* took a moving body; the world step in between has integrated.
TeleportNotOverwrittenWitness ==
  /\ pc = "player"
  /\ last.op = "companion"
  /\ frames >= 2
  /\ teleportedTo.since
  /\ teleportedTo.preLinvel.y # 0
  /\ teleportedTo.preLinvel.z # 0

(***************************************************************************)
(* Specification of the controller lifecycle: the world the components     *)
(* see changes (to another world or to none) and the player unmounts,      *)
(* between frames of a player with a following companion.                  *)
(***************************************************************************)
Worlds == {NoWorld, 1, 2}

LifecycleInputs == {NoInput, [NoInput EXCEPT !.jump = TRUE]}

InitLifecycle ==
  InitWith(defaultControls, defaultControls.maxStamina, initialScale, FALSE,
           [defaultCompanion EXCEPT !.enabled = TRUE, !.body = TRUE, !.squeezeProp = TRUE],
           CompanionTarget(spawnPosition, 0), 0)

NextLifecycle ==
  \/ WorldStep(100)
  \/ CompanionFrame(NoInput)
  \/ \E inp \in LifecycleInputs : PlayerFrame(inp)
  \/ \E w \in Worlds : WorldChange(w)
  \/ Unmount

SpecLifecycle == InitLifecycle /\ [][NextLifecycle]_vars

\* C12 - Controller lifecycle: every registered controller belongs to a
\* mounted component and to the current world (the controllers of a world
\* that was left and of an unmounted component have been removed from the
\* world they were created in), and no component has two registered.
ControllerLifecycle ==
  \A r \in registered :
    /\ mounted[r.owner]
    /\ r.world = world
    /\ \A r2 \in registered : r2.owner = r.owner => r2 = r

\* The components unmount after their controllers were re-created for
\* another world.
ControllerLifecycleWitness ==
  /\ last.op = "unmount"
  /\ created >= 4
  /\ world # NoWorld
  /\ registered = {}

\* C13 - No use of a released controller: the controller a frame update
\* (player or companion) hands to computeColliderMovement is registered with
\* the current world.
NoReleasedController ==
  (last.op \in {"frame", "companion"} /\ last.info.controller # NoController) =>
    \E r \in registered : r.id = last.info.controller /\ r.world = world

\* A player frame that runs the collision query after the world was
\* replaced by another one.
NoReleasedControllerWitness ==
  /\ FrameRan
  /\ last.info.castRan
  /\ world = 2
  /\ created >= 4
  /\ last.info.controller = characterControllerRef
  /\ last.info.controller > 2

(***************************************************************************)
(* Further properties of stamina (specification SpecStamina).              *)
(***************************************************************************)
\* C16 - Stamina update rule: with stamina enabled, a frame drains stamina
\* at 15 per second exactly when its movement is nonzero, and regenerates
\* it at the regeneration rate otherwise, also when a direction is held but
\* the movement is zero.
StaminaUpdateRule ==
  (FrameRan /\ controls.staminaEnabled) =>
    LET moved == last.info.movement # Zero3
    IN  staminaRef = IF moved
                       THEN Max(0, last.info.preStamina - staminaDrainRate * last.delta)
                       ELSE Min(controls.maxStamina,
                                last.info.preStamina + controls.staminaRegenRate * last.delta)

(***************************************************************************)
(* Further properties of XR input (specification SpecXR).                  *)
(***************************************************************************)
\* C17 - Collision-resolved motion only: a frame that is not a squeeze-mode
\* frame does not write the body's position, and the linear velocity it
\* writes is the shape-cast-corrected displacement divided by delta; also in
\* an immersive session.
CollisionResolvedOnly ==
  (last.op = "frame" /\ ~last.info.squeezing) =>
    /\ translation = last.info.preTranslation
    /\ last.info.castRan => linvel = VDiv(last.info.computed, last.delta)

(***************************************************************************)
(* Specification of squeeze mode: the squeeze and forward intents against  *)
(* walls and floors, on the desktop and in an XR session.                  *)
(***************************************************************************)
SqueezeInputs ==
  { [NoInput EXCEPT !.squeeze = s, !.forward = f, !.cast = k] :
      s \in BOOLEAN, f \in BOOLEAN, k \in CastKinds }
  \cup { [NoInput EXCEPT !.squeeze = TRUE, !.forward = TRUE, !.jump = TRUE, !.cast = "free"],
         [NoInput EXCEPT !.leftGamepad = TRUE, !.leftY = -100],
         [NoInput EXCEPT !.squeeze = TRUE, !.forward = TRUE, !.leftGamepad = TRUE,
                         !.leftY = -100, !.cast = "wall"] }

InitSqueeze ==
  \E sess \in BOOLEAN :
    InitWith(defaultControls, defaultControls.maxStamina, initialScale, sess,
             defaultCompanion, Zero3, 0)

NextSqueeze ==
  \/ \E delta \in Deltas : WorldStep(delta)
  \/ CompanionFrame(NoInput)
  \/ \E inp \in SqueezeInputs : PlayerFrame(inp)

SpecSqueeze == InitSqueeze /\ [][NextSqueeze]_vars

\* C18 - Squeeze-mode condition: a frame with a collision query bypasses
\* horizontal collision exactly when squeeze is held, there is no session and
\* forward is set: then the desired X/Z displacement and the computed Y
\* displacement are added to the position; in every other frame the position
\* is not written and all three components of the computed displacement go
\* to the body as velocity.
SqueezeCondition ==
  (FrameRan /\ last.info.castRan) =>
    LET bypass == last.inp.squeeze /\ ~session /\ last.inp.forward
        pre == last.info.preTranslation
        d == last.info.desired
        c == last.info.computed
    IN  IF bypass
          THEN /\ translation = Vec(pre.x + d.x, pre.y + c.y, pre.z + d.z)
               /\ linvel.x = 0
               /\ linvel.z = 0
          ELSE /\ translation = pre
               /\ linvel = VDiv(c, last.delta)

\* C19 - Squeeze-mode vertical motion: when the world step that follows a
\* squeeze-mode frame integrates with the same delta, the body's vertical
\* displacement since the start of that frame is computedMovement.y.
SqueezeVertical ==
  [][ (FrameRan /\ last.info.squeezing /\ last'.op = "step" /\ last'.delta = last.delta) =>
        translation'.y - last.info.preTranslation.y = last.info.computed.y ]_vars

(***************************************************************************)
(* Specification of the companion among obstacles: the companion follows   *)
(* while the player stands still and holds or releases squeeze.            *)
(***************************************************************************)
FollowPlayerInputs == {NoInput, [NoInput EXCEPT !.squeeze = TRUE]}

FollowCasts == { [NoInput EXCEPT !.cast = k] : k \in CastKinds }

InitFollow ==
  \E start \in CompanionStarts :
    InitWith(defaultControls, defaultControls.maxStamina, initialScale, FALSE,
             [defaultCompanion EXCEPT !.enabled = TRUE, !.body = TRUE, !.squeezeProp = TRUE,
                                      !.translation = start],
             CompanionTarget(spawnPosition, 0), 0)

NextFollow ==
  \/ WorldStep(100)
  \/ \E inp \in FollowCasts : CompanionFrame(inp)
  \/ \E inp \in FollowPlayerInputs : PlayerFrame(inp)

SpecFollow == InitFollow /\ [][NextFollow]_vars

\* C20 - Companion respects the environment: a companion update with a
\* collision query does not write the companion's position, and the linear
\* velocity it writes is the displacement its shape-cast returns for the
\* desired movement, divided by delta, whatever the player's inputs are.
CompanionRespectsEnvironment ==
  (last.op = "companion" /\ last.info.ran /\ last.info.castRan) =>
    /\ companion.translation = last.info.preTranslation
    /\ companion.linvel = VDiv(ShapeCast(last.inp.cast, last.info.desired).mv, last.delta)

(***************************************************************************)
(* Collision groups.  A collisionGroups value is 32 bits wide: the high 16 *)
(* bits are the memberships, the low 16 bits the filter.  Two colliders    *)
(* interact when each one's memberships meet the other's filter.           *)
(***************************************************************************)
RECURSIVE BitAnd(_, _)
\* Bitwise AND of two naturals.
BitAnd(a, b) ==
  IF a = 0 \/ b = 0 THEN 0
  ELSE 2 * BitAnd(a \div 2, b \div 2) + (IF a % 2 = 1 /\ b % 2 = 1 THEN 1 ELSE 0)

\* The memberships and filter halves of a collisionGroups value.
InteractionGroups(v) == [memberships |-> v \div 65536, filter |-> v % 65536]

\* collisionGroups={1} on the player's RigidBody.
playerCollisionGroups == InteractionGroups(1)

\* collisionGroups={2} on the companion's RigidBody.
companionCollisionGroups == InteractionGroups(2)

\* The value of a collider that sets no collisionGroups: 0xffffffff.
defaultCollisionGroups == [memberships |-> 65535, filter |-> 65535]

\* The interaction-group test between two colliders.
InteractionTest(a, b) ==
  /\ BitAnd(a.memberships, b.filter) # 0
  /\ BitAnd(b.memberships, a.filter) # 0

\* collisionGroups values a collider of the scene may carry.
GroupValues ==
  { InteractionGroups(v) : v \in {0, 1, 2, 3, 65534, 65535, 65536, 65537, 65538,
                                  131073, 131074, 196611} }
    \cup {defaultCollisionGroups}

\* The physics world tests a pair of colliders.
CollidersTest(a, b) ==
  /\ last' = LastOf("groups", NoInput, 0, Zero3,
                    [a |-> a, b |-> b, interacts |-> InteractionTest(a, b)])
  /\ UNCHANGED << playerRef, translation, linvel, characterControllerRef, playerGroupRef,
                  groupRotationY, rotation, scale, stamina, pending, renderPending,
                  staminaRef, velocityRef, isJumpingRef, squeezeModeRef,
                  companionTargetRef, controls, levaControls, session, xrSpeed, companion,
                  frameDelta, pc, frames, teleportedTo, lifecycleVars >>

InitGroups == Init

NextGroups == \E a \in GroupValues, b \in GroupValues : CollidersTest(a, b)

SpecGroups == InitGroups /\ [][NextGroups]_vars

\* C21 - Collision groups: the player's groups value 1 and the companion's
\* groups value 2 do not interact with each other, while each of them
\* interacts with a static collider carrying the default all-groups value.
CollisionGroups ==
  (last.op = "groups" /\ last.info.a \in {playerCollisionGroups, companionCollisionGroups}) =>
    /\ last.info.b \in {playerCollisionGroups, companionCollisionGroups}
         => ~last.info.interacts
    /\ last.info.b = defaultCollisionGroups => last.info.interacts

(***************************************************************************)
(* Specification of the order of the two updates of a frame: the companion *)
(* is enabled and mounted, with or without the squeezeModeRef prop, while  *)
(* the player walks and turns.                                             *)
(***************************************************************************)
OrderInputs ==
  {NoInput, [NoInput EXCEPT !.rotateLeft = TRUE], [NoInput EXCEPT !.forward = TRUE],
   [NoInput EXCEPT !.forward = TRUE, !.cast = "free"]}

OrderCompanionInputs == {NoInput, [NoInput EXCEPT !.colliderOk = FALSE]}

InitOrder ==
  \E p \in BOOLEAN :
    InitWith(defaultControls, defaultControls.maxStamina, initialScale, FALSE,
             [defaultCompanion EXCEPT !.enabled = TRUE, !.body = TRUE, !.squeezeProp = p],
             Zero3, 0)

NextOrder ==
  \/ WorldStep(100)
  \/ \E inp \in OrderCompanionInputs : CompanionFrame(inp)
  \/ \E inp \in OrderInputs : PlayerFrame(inp)
  \/ Render

SpecOrder == InitOrder /\ [][NextOrder]_vars

\* C22 - Update order: in a frame where both updates run, the target the
\* companion's update used is the one the player's update of that same
\* frame derives from the player's position and yaw (the player's update
\* comes first, so the companion never follows the previous frame's target).
UpdateOrder ==
  [][(/\ last.op = "companion" /\ last.info.ran
      /\ last'.op = "frame" /\ last'.info.ran)
       => last.target = companionTargetRef']_vars

(***************************************************************************)
(* Mounting.  After the first commit the frame callbacks are subscribed    *)
(* and the group ref is attached, while the rigid bodies, the character    *)
(* controllers and the teleport handler appear with the mount effects.     *)
(***************************************************************************)
\* teleportPlayer(position) of the ModelProvider: the request goes to the
\* registered handler, if there is one.
teleportPlayer(position) ==
  IF teleportHandlerRef
    THEN handleTeleport(position)
    ELSE /\ last' = LastOf("teleport", NoInput, 0, position,
                           [NoFrame EXCEPT !.preVy = velocityRef.y,
                                           !.preJumping = isJumpingRef,
                                           !.preLinvel = linvel,
                                           !.preTranslation = translation])
         /\ UNCHANGED << playerRef, translation, linvel, characterControllerRef,
                         playerGroupRef, groupRotationY, rotation, scale, stamina, pending,
                         renderPending, staminaRef, velocityRef, isJumpingRef,
                         squeezeModeRef, companionTargetRef, controls, levaControls,
                         session, xrSpeed, companion, frameDelta, pc, frames,
                         teleportedTo, lifecycleVars >>

\* The state after the first commit, before the mount effects.
InitMounting(sess, comp) ==
  /\ playerRef = FALSE
  /\ translation = spawnPosition
  /\ linvel = Zero3
  /\ characterControllerRef = NoController
  /\ playerGroupRef = TRUE
  /\ groupRotationY = 0
  /\ rotation = 0
  /\ scale = initialScale
  /\ stamina = defaultControls.maxStamina
  /\ pending = NoPending
  /\ renderPending = FALSE
  /\ staminaRef = defaultControls.maxStamina
  /\ velocityRef = Zero3
  /\ isJumpingRef = FALSE
  /\ squeezeModeRef = FALSE
  /\ companionTargetRef = Zero3
  /\ controls = defaultControls
  /\ levaControls = defaultControls
  /\ session = sess
  /\ xrSpeed = getXRSpeed(defaultControls, defaultControls.maxStamina)
  /\ companion = [comp EXCEPT !.body = FALSE, !.controller = NoController]
  /\ frameDelta = 0
  /\ pc = "idle"
  /\ frames = 0
  /\ world = 1
  /\ registered = {}
  /\ mounted = [player |-> TRUE, companion |-> TRUE]
  /\ cleanups = [player |-> NoCleanup, companion |-> NoCleanup]
  /\ created = 0
  /\ teleportedTo = NoTeleport
  /\ teleportHandlerRef = FALSE
  /\ models = {}
  /\ response = NoResponse
  /\ last = LastOf("init", NoInput, 0, Zero3, NoFrame)

\* The mount effects, the child's first: the rigid bodies are attached to
\* their refs, each controller effect creates its controller and the
\* teleport handler is registered.
MountEffects ==
  LET co == ControllerEffect(registered, cleanups.companion, companion.controller,
                             "companion", world, created + 1)
      pl == ControllerEffect(co.registered, cleanups.player, characterControllerRef,
                             "player", world, created + 1 + co.made)
  IN  /\ pc = "idle"
      /\ mounted.player
      /\ ~teleportHandlerRef
      /\ playerRef' = TRUE
      /\ companion' = [companion EXCEPT !.body = companion.enabled, !.controller = co.ref]
      /\ registered' = pl.registered
      /\ cleanups' = [player |-> pl.cleanup, companion |-> co.cleanup]
      /\ characterControllerRef' = pl.ref
      /\ created' = created + co.made + pl.made
      /\ teleportHandlerRef' = TRUE
      /\ last' = LastOf("mount", NoInput, 0, Zero3, NoFrame)
      /\ UNCHANGED << translation, linvel, playerGroupRef, groupRotationY, rotation, scale,
                      stamina, pending, renderPending, staminaRef, velocityRef,
                      isJumpingRef, squeezeModeRef, companionTargetRef, controls,
                      levaControls, session, xrSpeed, frameDelta, pc, frames, world,
                      mounted, teleportedTo, cacheVars >>

(***************************************************************************)
(* Specification of mounting and unmounting, desktop and immersive, with   *)
(* the companion enabled or not, frames and teleport requests at any time. *)
(***************************************************************************)
MountInputs ==
  {NoInput, [NoInput EXCEPT !.forward = TRUE], [NoInput EXCEPT !.jump = TRUE],
   [NoInput EXCEPT !.rotateLeft = TRUE, !.grow = TRUE],
   [NoInput EXCEPT !.leftGamepad = TRUE, !.leftY = -100]}

MountCompanionInputs == {NoInput, [NoInput EXCEPT !.colliderOk = FALSE]}

InitMount ==
  \E sess \in BOOLEAN, e \in BOOLEAN :
    InitMounting(sess, [defaultCompanion EXCEPT !.enabled = e])

NextMount ==
  \/ WorldStep(100)
  \/ \E inp \in MountCompanionInputs : CompanionFrame(inp)
  \/ \E inp \in MountInputs : PlayerFrame(inp)
  \/ \E target \in TeleportTargets : pc = "idle" /\ teleportPlayer(target)
  \/ MountEffects
  \/ Unmount
  \/ Render

SpecMount == InitMount /\ [][NextMount]_vars

\* C23 - Teleport request consumed exactly once: every request made through
\* teleportPlayer is applied to the player body by the step that makes it
\* (the body is at the requested position plus the offset, with zero
\* velocity and the jump state cleared), also when no handler is registered
\* or the body reference is absent.  (No request is stored, so the only
\* application of a request is the one made by the step that requests it.)
TeleportConsumedOnce ==
  last.op = "teleport" =>
    /\ translation = TeleportState(last.target).translation
    /\ linvel = TeleportState(last.target).linvel
    /\ velocityRef = TeleportState(last.target).velocityRef
    /\ isJumpingRef = TeleportState(last.target).isJumping
    /\ teleportedTo.since

(***************************************************************************)
(* Specification of frames with and without a collider behind the body's   *)
(* handle, desktop and immersive, with stamina enabled.                    *)
(***************************************************************************)
StaleInputs ==
  { [i EXCEPT !.colliderOk = c] :
      i \in {NoInput,
             [NoInput EXCEPT !.forward = TRUE, !.rotateLeft = TRUE, !.grow = TRUE],
             [NoInput EXCEPT !.jump = TRUE],
             [NoInput EXCEPT !.rotateRight = TRUE, !.shrink = TRUE, !.cast = "free"],
             [NoInput EXCEPT !.leftGamepad = TRUE, !.leftY = -100]},
      c \in BOOLEAN }

InitStale ==
  \E sess \in BOOLEAN :
    InitWith([defaultControls EXCEPT !.staminaEnabled = TRUE], 50000, initialScale, sess,
             defaultCompanion, Zero3, 0)

NextStale ==
  \/ \E delta \in Deltas : WorldStep(delta)
  \/ \E inp \in CompanionIdle : CompanionFrame(inp)
  \/ \E inp \in StaleInputs : PlayerFrame(inp)
  \/ Render

SpecStale == InitStale /\ [][NextStale]_vars

SkippedPhysicsKeepsJumpState ==
  (FrameRan /\ ~last.inp.colliderOk) =>
    /\ velocityRef.y = last.info.preVy
    /\ isJumpingRef = last.info.preJumping

HeadPoses == {NoHead, HeadZero, HeadNegZero, 0, 700, -1500}

HeadInputs ==
  { [NoInput EXCEPT !.leftGamepad = TRUE, !.leftX = a[1], !.leftY = a[2],
                    !.forward = a[3], !.rotateLeft = a[4], !.head = h] :
      a \in { <<0, -100, FALSE, TRUE>>, <<50, 0, TRUE, FALSE>>,
              <<0, 0, TRUE, TRUE>>, <<0, 100, FALSE, FALSE>> },
      h \in HeadPoses }

InitHead ==
  \E sess \in BOOLEAN :
    InitWith(defaultControls, defaultControls.maxStamina, initialScale, sess,
             defaultCompanion, Zero3, 0)

NextHead ==
  \/ WorldStep(100)
  \/ \E inp \in CompanionIdle : CompanionFrame(inp)
  \/ \E inp \in HeadInputs : PlayerFrame(inp)
  \/ Render

SpecHead == InitHead /\ [][NextHead]_vars

\* C27 - Head-pose fallback: in an immersive frame whose head pose is not
\* available (the camera throws, or gives a forward vector that is zero in
\* the horizontal plane) the thumbstick movement is laid out along the
\* logical yaw of the frame, and the frame completes.
HeadFallback ==
  (FrameRan /\ session /\ last.inp.head \in {NoHead, HeadZero, HeadNegZero}) =>
    LET xr == XRInput(last.inp, session)
        kb == KeyboardMovement(last.inp, groupRotationY, last.info.speed)
        vr == XRMovement(xr, groupRotationY, last.info.speed)
    IN  /\ last.info.movement = Vec(kb.x + vr.x, 0, kb.z + vr.z)
        /\ ~last.info.threw

\* C28 - No failure escapes a frame: whatever the state and the inputs
\* (absent references, no collider behind a handle, the companion mounted
\* with the props the player gives it), neither the player's nor the
\* companion's frame callback throws.
NoFrameFailure ==
  last.op \in {"frame", "companion"} => ~last.info.threw

BandStaminas ==
  {0, 4999, 5000, 14999, 15000, 29999, 30000, 50000, 59999, 60000, 119999, 120000, 200000}

BandMaxStaminas == {50000, 100000, 200000}

BandWalkingSpeeds == {3000, 5000}

BandInputs == {NoInput, [NoInput EXCEPT !.forward = TRUE]}

InitBands ==
  \E st \in BandStaminas, m \in BandMaxStaminas, w \in BandWalkingSpeeds, e \in BOOLEAN :
    /\ st <= m
    /\ InitWith([defaultControls EXCEPT !.staminaEnabled = e, !.maxStamina = m,
                                        !.maxWalkingSpeed = w],
                st, initialScale, FALSE, defaultCompanion, Zero3, 0)

NextBands ==
  \/ WorldStep(100)
  \/ \E inp \in CompanionIdle : CompanionFrame(inp)
  \/ \E inp \in BandInputs : PlayerFrame(inp)
  \/ Render

SpecBands == InitBands /\ [][NextBands]_vars

\* C30 - Speed bands: with stamina enabled the frame's speed is 0 below 5,
\* 30% of maxWalkingSpeed from 5 up to 0.3 x maxStamina, 70% from there up
\* to 0.6 x maxStamina and 100% from there on, so that no lower stamina
\* gives a higher speed; with stamina disabled it is maxWalkingSpeed.
SpeedBands ==
  FrameRan =>
    LET s == last.info.preStamina
        m == controls.maxStamina
        w == controls.maxWalkingSpeed
        v == last.info.speed
    IN  /\ ~controls.staminaEnabled => v = w
        /\ controls.staminaEnabled =>
             /\ s < 5000 => v = 0
             /\ (5000 <= s /\ 10 * s < 3 * m) => 10 * v = 3 * w
             /\ (5000 <= s /\ 3 * m <= 10 * s /\ 10 * s < 6 * m) => 10 * v = 7 * w
             /\ (5000 <= s /\ 6 * m <= 10 * s) => v = w
        /\ \A lower \in BandStaminas : lower <= s => CurrentSpeed(controls, lower) <= v

\* Frames in the 30% and in the 70% band of a maxStamina of 200 and of 50.
SpeedBandsWitness ==
  /\ FrameRan /\ controls.staminaEnabled /\ last.inp.forward
  /\ \/ controls.maxStamina = 200000 /\ last.info.preStamina = 50000
          /\ last.info.speed = 1500 /\ controls.maxWalkingSpeed = 5000
     \/ controls.maxStamina = 50000 /\ last.info.preStamina = 15000
          /\ last.info.speed = 3500 /\ controls.maxWalkingSpeed = 5000

(***************************************************************************)
(* Specification of the companion's attraction: starts at several          *)
(* distances and bearings from the target of a resting player, some inside *)
(* the dead-zone, at a height other than the target's.                     *)
(***************************************************************************)
AttractionStarts ==
  { Vec(-20000000 + a[1], a[3], -2000000 + a[2]) :
      a \in { <<-2000000, 0, 2000000>>, <<-2500000, 0, 2000000>>,
              <<300000, 400000, 2000000>>, <<-600000, -800000, 600000>>,
              <<30000, 30000, 2000000>>, <<0, 40000, 5000000>>,
              <<0, 60000, 600000>>, <<1200000, -500000, 2000000>> } }

InitAttraction ==
  \E start \in AttractionStarts, fs \in FollowSpeeds, fd \in FollowDistances,
     delta \in CompanionDeltas :
    InitWith(defaultControls, defaultControls.maxStamina, initialScale, FALSE,
             [defaultCompanion EXCEPT !.enabled = TRUE, !.body = TRUE, !.squeezeProp = TRUE,
                                      !.translation = start, !.followSpeed = fs,
                                      !.followDistance = fd],
             CompanionTarget(spawnPosition, 0), delta)

NextAttraction ==
  \/ WorldStep(frameDelta)
  \/ \E inp \in CompanionInputs : CompanionFrame(inp)
  \/ PlayerFrame(NoInput)

SpecAttraction == InitAttraction /\ [][NextAttraction]_vars

\* C31 - Attraction law and dead-zone: in a companion update d is the
\* distance to the target in the XZ plane; beyond the dead-zone of 0.05 the
\* horizontal movement has the size followSpeed x min(8, 1 + (d /
\* followDistance)^2 x 5) (to the rounding of the fixed-point arithmetic,
\* here 1%) and points at the target, and inside the dead-zone it is zero.
AttractionLaw ==
  (last.op = "companion" /\ last.info.ran) =>
    LET dx == RDiv(last.target.x - last.info.preTranslation.x, 1000)
        dz == RDiv(last.target.z - last.info.preTranslation.z, 1000)
        d == Sqrt(dx * dx + dz * dz)
        mx == last.info.movement.x
        mz == last.info.movement.z
        size == 10 * Sqrt((mx \div 10) * (mx \div 10) + (mz \div 10) * (mz \div 10))
        ratio == RDiv(d * 1000, companion.followDistance)
        law == RDiv(companion.followSpeed * Min(8000, 1000 + 5 * RDiv(ratio * ratio, 1000)),
                    1000)
    IN  /\ last.info.distance = d
        /\ d < deadZoneDistance => mx = 0 /\ mz = 0
        /\ d > deadZoneDistance =>
             /\ Abs(size - law) * 100 <= law + 2000
             /\ mx * dx + mz * dz > 0
             /\ Abs(mx * dz - mz * dx) <= (size * d) \div 100 + 1000
        /\ last.info.movement.y = 0

\* An update on a diagonal bearing below the cap of the multiplier, and one
\* inside the dead-zone at another height than the target.
AttractionLawWitness ==
  /\ last.op = "companion" /\ last.info.ran
  /\ \/ /\ last.info.distance = 500 /\ companion.followDistance = 1000
        /\ last.info.movement.x < 0 /\ last.info.movement.z < 0
        /\ companion.followSpeed = 3000
        /\ Abs(last.info.movement.x + 4050) <= 40
     \/ /\ last.info.distance < deadZoneDistance /\ last.info.distance > 0
        /\ last.info.movement = Zero3
        /\ last.info.preTranslation.y # last.target.y

capsuleHalfHeight == 900000

capsuleRadius == 500000

\* C33 - Teleport foot placement: after a teleport to T the lowest point of
\* the player's capsule (body centre Y minus half-height 0.9 minus radius
\* 0.5) is exactly at T.y.
TeleportFootPlacement ==
  (last.op = "teleport" /\ playerRef /\ teleportedTo.since) =>
    translation.y - capsuleHalfHeight - capsuleRadius = last.target.y

(***************************************************************************)
(* Specification of stamina over an unbounded run of frames: stamina is    *)
(* enabled, maxStamina is fixed, and the player stands or pushes against a *)
(* wall, so the frames are not counted and the run never ends.  The        *)
(* animation loop and React's scheduler keep going: the one step that is   *)
(* due (frame start, callback or pending render) is eventually taken.      *)
(***************************************************************************)
RecoveryStaminas == {0, 4000, 50000}

RecoveryMaxStaminas == {50000, 100000}

RecoveryRegenRates == {5, 20}

RecoveryInputs ==
  {NoInput, [NoInput EXCEPT !.forward = TRUE, !.cast = "wallfloor"],
   [NoInput EXCEPT !.left = TRUE, !.right = TRUE]}

\* A directional intent, by keyboard or thumbstick.
Directional(inp) ==
  \/ inp.forward \/ inp.back \/ inp.left \/ inp.right
  \/ inp.leftGamepad /\ (Abs(inp.leftX) > deadzone \/ Abs(inp.leftY) > deadzone)

InitRecovery ==
  \E st \in RecoveryStaminas, m \in RecoveryMaxStaminas, r \in RecoveryRegenRates,
     sess \in BOOLEAN :
    InitWith([defaultControls EXCEPT !.staminaEnabled = TRUE, !.maxStamina = m,
                                     !.staminaRegenRate = r],
             st, initialScale, sess, defaultCompanion, Zero3, 0)

RecoveryDeltas == {400}

NextRecovery ==
  \/ \E delta \in RecoveryDeltas : FrameStart(delta, frames)
  \/ \E inp \in CompanionIdle : CompanionFrame(inp)
  \/ \E inp \in RecoveryInputs : PlayerFrame(inp)
  \/ Render

SpecRecovery == InitRecovery /\ [][NextRecovery]_vars /\ WF_vars(NextRecovery)

\* The player frames give no directional input.
RecoveryIdle == last.op = "frame" => ~Directional(last.inp)

\* Stamina is full and the speed is maxWalkingSpeed.
RecoveryFull ==
  /\ staminaRef = controls.maxStamina
  /\ CurrentSpeed(controls, staminaRef) = controls.maxWalkingSpeed

\* C34 - Stamina recovery: with stamina enabled and maxStamina fixed, if
\* from some frame on no frame has a directional input, then from some
\* point on stamina is maxStamina and the speed is 100% of maxWalkingSpeed,
\* from every stamina value, 0 included.
StaminaRecovery == <>[]RecoveryIdle => <>[]RecoveryFull

\* An idle frame that brought stamina from below maxStamina up to it.
StaminaRecoveryWitness ==
  /\ FrameRan /\ ~Directional(last.inp)
  /\ last.info.preStamina < controls.maxStamina
  /\ staminaRef = controls.maxStamina
  /\ controls.maxStamina = 100000 /\ controls.staminaRegenRate = 5
  /\ CurrentSpeed(controls, staminaRef) = controls.maxWalkingSpeed

\* C35 - Grow and shrink together: a frame with a grow intent and a shrink
\* intent (keyboard or XR button, in any mix) at a scale above minScale
\* hands scale - 0.01 to setScale as the write that takes effect, and at
\* minScale it hands minScale + 0.01.
GrowAndShrink ==
  LET xr == XRInput(last.inp, session)
  IN  (FrameRan /\ (last.inp.grow \/ xr.grow) /\ (last.inp.shrink \/ xr.shrink)) =>
        /\ (minScale < scale /\ scale <= maxScale) => pending.scale = scale - 1
        /\ scale = minScale => pending.scale = minScale + 1

\* The y-button and the shrink key together at the upper limit: the scale
\* goes down.
GrowAndShrinkWitness ==
  /\ FrameRan /\ session
  /\ last.inp.yButton /\ ~last.inp.grow /\ last.inp.shrink
  /\ scale = maxScale
  /\ pending.scale = maxScale - 1

(***************************************************************************)
(* Specification of keyboard walking: every combination of the four        *)
(* direction keys, with and without turning, on the desktop.               *)
(***************************************************************************)
KeyInputs ==
  { [NoInput EXCEPT !.forward = f, !.back = b, !.left = l, !.right = r, !.rotateLeft = t] :
      f \in BOOLEAN, b \in BOOLEAN, l \in BOOLEAN, r \in BOOLEAN, t \in BOOLEAN }

NextKeys ==
  \/ WorldStep(100)
  \/ \E inp \in CompanionIdle : CompanionFrame(inp)
  \/ \E inp \in KeyInputs : PlayerFrame(inp)
  \/ Render

SpecKeys == Init /\ [][NextKeys]_vars

\* C36 - Keyboard speed bound: in a frame with keyboard input only, whatever
\* the combination of the four direction keys, the size of the frame's
\* horizontal velocity is at most the frame's currentSpeed.
KeyboardSpeedBound ==
  (FrameRan /\ ~session) =>
    last.info.movement.x * last.info.movement.x
      + last.info.movement.z * last.info.movement.z
        <= last.info.speed * last.info.speed

(***************************************************************************)
(* Specification of frames whose delta may be 0 (two animation frames with *)
(* the same timestamp), on the desktop, without a companion and with a     *)
(* companion that was given all its props.                                 *)
(***************************************************************************)
ZeroDeltas == {0, 100}

ZeroDeltaInputs ==
  {NoInput, [NoInput EXCEPT !.forward = TRUE], [NoInput EXCEPT !.jump = TRUE],
   [NoInput EXCEPT !.forward = TRUE, !.squeeze = TRUE],
   [NoInput EXCEPT !.grow = TRUE],
   [NoInput EXCEPT !.cast = "free"], [NoInput EXCEPT !.colliderOk = FALSE]}

ZeroDeltaCompanions ==
  {defaultCompanion,
   [defaultCompanion EXCEPT !.enabled = TRUE, !.body = TRUE, !.squeezeProp = TRUE,
                            !.translation = Vec(3000000, 0, 0)]}

InitZeroDelta ==
  \E comp \in ZeroDeltaCompanions :
    InitWith(defaultControls, defaultControls.maxStamina, initialScale, FALSE,
             comp, Zero3, 0)

NextZeroDelta ==
  \/ \E delta \in ZeroDeltas : WorldStep(delta)
  \/ \E inp \in CompanionInputs : CompanionFrame(inp)
  \/ \E inp \in ZeroDeltaInputs : PlayerFrame(inp)
  \/ Render

SpecZeroDelta == InitZeroDelta /\ [][NextZeroDelta]_vars

\* C37 - Zero delta: a frame with delta = 0 that reaches its velocity write
\* hands numbers to setLinvel, for the player and for the companion, and
\* where it neither starts a jump nor lands its vertical velocity is the one
\* it began with.
ZeroDelta ==
  /\ (FrameRan /\ last.delta = 0 /\ last.info.castRan) =>
       /\ linvel.x # NaN /\ linvel.y # NaN /\ linvel.z # NaN
       /\ (~last.info.jumpStarted /\ ~last.info.grounded) =>
            velocityRef.y = last.info.preVy
  /\ (last.op = "companion" /\ last.delta = 0 /\ last.info.castRan /\ ~last.info.squeezing) =>
       /\ companion.linvel.x # NaN /\ companion.linvel.y # NaN /\ companion.linvel.z # NaN

(***************************************************************************)
(* The operations of the model cache and the fetch of a cached model.      *)
(***************************************************************************)
\* cacheModel(filename, data): store.put replaces the record of the key.
cacheModel(filename, data, timestamp) ==
  /\ models' = {m \in models : m.filename # filename}
                 \cup {CachedModel(filename, data, timestamp)}
  /\ UNCHANGED << response, sceneVars >>

\* deleteCachedModel(filename)
deleteCachedModel(filename) ==
  /\ models' = {m \in models : m.filename # filename}
  /\ UNCHANGED << response, sceneVars >>

\* clearCache()
clearCache ==
  /\ models' = {}
  /\ UNCHANGED << response, sceneVars >>

\* fetch(getCachedModelUrl(filename)) as the service worker answers it.
FetchCachedModel(filename) ==
  LET url == RequestUrl(getCachedModelUrl(filename))
      pathname == Pathname(url)
  IN  /\ StartsWith(pathname, CachedModelPrefix)
      /\ response' = handleCachedModelRequest(filename,
                                              RemovePrefix(pathname, CachedModelPrefix))
      /\ UNCHANGED << models, sceneVars >>

Filenames == { << "a" >>, << "a", " ", "b" >>, << "a", "%", "2", "0", "b" >> }

ModelDatas == { << 1 >>, << 2, 3 >> }

Timestamps == {1, 2}

NextCache ==
  \/ \E f \in Filenames, d \in ModelDatas, t \in Timestamps : cacheModel(f, d, t)
  \/ \E f \in Filenames : deleteCachedModel(f)
  \/ clearCache
  \/ \E f \in Filenames : FetchCachedModel(f)

SpecCache == Init /\ [][NextCache]_vars

\* C38 - Model cache round trip: the answer to a fetch of
\* getCachedModelUrl(filename) has status 200 and the bytes given to
\* cacheModel when a record of that filename was in the store at the fetch,
\* and status 404 when none was.
ModelCacheRoundTrip ==
  response.status # 0 =>
    LET cached == {m \in response.store : m.filename = response.filename}
    IN  IF cached # {}
          THEN /\ response.status = 200
               /\ response.kind = "bytes"
               /\ \A m \in cached : response.bytes = m.data
          ELSE response.status = 404

====
